---- MODULE Spec2Model ----
(***************************************************************************)
(* Actioneer: the pipeline interpreter (ActionRunner.run / #execute), the  *)
(* worker pool (Piper.pipe) and the loop.break event channel, modelled as  *)
(* cooperative tasks.  Every task is a stack of frames (one frame per      *)
(* async call in flight); a step of a task runs the code between two       *)
(* suspension points.  User callables (bodies, predicates, splitters,      *)
(* rejoiners, done callbacks, lifecycle hooks) are opaque: each call       *)
(* picks one of the outcomes the activity's catalogue entry allows.        *)
(***************************************************************************)
EXTENDS Integers, Sequences, FiniteSets, TLC

VARIABLES threads, log, ctr, listeners, reason, wrappers, scen, bld, hooking,
          first

vars == <<threads, log, ctr, listeners, reason, wrappers, scen, bld, hooking, first>>

(***************************************************************************)
(* Bounds of the exploration.                                              *)
(***************************************************************************)
MaxItems == 2
MaxConcurrent == 2
MaxIter == 2
MaxSplit == 2
\* calls made on the builders of one action
MaxCalls == 3
\* the hook timeout and the longest hook, in clock ticks
TimeoutTicks == 2
MaxDuration == 3

(***************************************************************************)
(* Program constants.                                                      *)
(***************************************************************************)
ACTIVITY_ONCE == 0
ACTIVITY_WHILE == 1
ACTIVITY_UNTIL == 2
ACTIVITY_SPLIT == 3
ACTIVITY_IF == 4
ACTIVITY_BREAK == 5
ACTIVITY_CONTINUE == 6
DefaultMaxConcurrent == 10

MaxThreads == 1 + MaxConcurrent + MaxSplit
Threads == 0..(MaxThreads - 1)
\* the task of the caller of run() / pipe()
MainThread == CHOOSE t \in Threads : \A u \in Threads : t <= u

Min(a, b) == IF a < b THEN a ELSE b

(***************************************************************************)
(* Values.  A context is opaque to the runtime; the model tags it with the *)
(* seed it descends from (o) and the number of bodies that replaced it (n) *)
(* so that results can be traced back to their input.                      *)
(***************************************************************************)
Ctx(o, n) == [vk |-> "ctx", o |-> o, n |-> n]
Undef == [vk |-> "undef"]
UserError(o) == [vk |-> "err", msg |-> "user", cause |-> <<>>, o |-> o]
Sass(msg, o) == [vk |-> "err", msg |-> msg, cause |-> <<>>, o |-> o]
Wrap(msg, e) == [vk |-> "err", msg |-> msg, cause |-> <<e>>, o |-> e.o]
Tantrum(msg, es) == [vk |-> "err", msg |-> msg, cause |-> es, o |-> es[1].o]
NoError == [vk |-> "none"]
OriginOf(c) == IF c.vk = "undef" THEN 0 ELSE c.o
Bump(c) == IF c.vk = "ctx" THEN Ctx(c.o, c.n + 1) ELSE Ctx(OriginOf(c), 1)
IsError(v) == v.vk = "err"

Ok(v) == [ok |-> TRUE, v |-> v]
Fail(e) == [ok |-> FALSE, v |-> e]
NoOutcome == [ok |-> FALSE, v |-> NoError]

Fulfilled(v) == [status |-> "fulfilled", value |-> v]
Rejected(e) == [status |-> "rejected", reason |-> e]
Unset == [status |-> "unset"]

\* Promise.allSettled record of one outcome
Settle(o) == IF o.ok THEN Fulfilled(o.v) ELSE Rejected(o.v)

(***************************************************************************)
(* The catalogue of builders.  An activity definition as registered by     *)
(* ActionBuilder.do: name, kind, the type of its op and, for an            *)
(* ActionBuilder op, the nested builder.  outs / pouts are the outcomes    *)
(* the user's op / predicate may produce in the explored programs.         *)
(***************************************************************************)
Fn(name, outs) ==
  [name |-> name, kind |-> ACTIVITY_ONCE, opKind |-> "Function", sub |-> 0,
   outs |-> outs, pouts |-> {}, split |-> FALSE]

Cond(name, kind, pouts, outs) ==
  [name |-> name, kind |-> kind, opKind |-> "Function", sub |-> 0,
   outs |-> outs, pouts |-> pouts, split |-> FALSE]

Nest(name, kind, pouts, sub) ==
  [name |-> name, kind |-> kind, opKind |-> "ActionBuilder", sub |-> sub,
   outs |-> {}, pouts |-> pouts, split |-> FALSE]

Ctl(name, kind, pouts) ==
  [name |-> name, kind |-> kind, opKind |-> "Undefined", sub |-> 0,
   outs |-> {}, pouts |-> pouts, split |-> FALSE]

\* a callable op that returns the builder sub instead of a context
Dyn(name, kind, pouts, sub) ==
  [name |-> name, kind |-> kind, opKind |-> "Function", sub |-> sub,
   outs |-> {"builder"}, pouts |-> pouts, split |-> FALSE]

SplitFn(name, outs) ==
  [name |-> name, kind |-> ACTIVITY_SPLIT, opKind |-> "Function", sub |-> 0,
   outs |-> outs, pouts |-> {}, split |-> TRUE]

SplitNest(name, sub) ==
  [name |-> name, kind |-> ACTIVITY_SPLIT, opKind |-> "ActionBuilder", sub |-> sub,
   outs |-> {}, pouts |-> {}, split |-> TRUE]

\* a kind that do(name, kind, pred, op) accepts (any Number) and that is
\* none of the ACTIVITY values: WHILE | CONTINUE
AmbiguousKind == 7

TF == {"T", "F"}
TFX == {"T", "F", "throw"}
VX == {"val", "throw"}
VUX == {"val", "undef", "throw"}

Builders ==
  <<
    \* 1: WHILE loop over a nested pipeline, then one more activity
    [acts |-> << Fn("init", {"val"}),
                 Nest("loop", ACTIVITY_WHILE, TFX, 2),
                 Fn("finish", VUX) >>,
     done |-> {"val", "throw"}],
    \* 2: the loop body: BREAK and CONTINUE between two bodies
    [acts |-> << Fn("inc", VX),
                 Ctl("brk", ACTIVITY_BREAK, TFX),
                 Ctl("cnt", ACTIVITY_CONTINUE, TF),
                 Fn("tail", {"val"}) >>,
     done |-> {"val"}],
    \* 3: UNTIL loop over the same nested pipeline
    [acts |-> << Nest("loop", ACTIVITY_UNTIL, TFX, 2),
                 Fn("finish", {"val"}) >>,
     done |-> {}],
    \* 4: BREAK in the top-level pipeline
    [acts |-> << Fn("a", {"val"}), Ctl("b", ACTIVITY_BREAK, TF), Fn("z", {"val"}) >>,
     done |-> {"val"}],
    \* 5: CONTINUE in the top-level pipeline
    [acts |-> << Ctl("c", ACTIVITY_CONTINUE, TF), Fn("z", {"val"}) >>,
     done |-> {}],
    \* 6: IF whose body is a nested pipeline holding BREAK / CONTINUE
    [acts |-> << Nest("maybe", ACTIVITY_IF, TFX, 7), Fn("z", {"val"}) >>,
     done |-> {"val"}],
    \* 7: body of the IF
    [acts |-> << Ctl("b", ACTIVITY_BREAK, TF), Ctl("c", ACTIVITY_CONTINUE, TF),
                 Fn("x", {"val"}) >>,
     done |-> {"val"}],
    \* 8: loops and a conditional over plain functions
    [acts |-> << Cond("w", ACTIVITY_WHILE, TFX, VUX),
                 Cond("u", ACTIVITY_UNTIL, TFX, VX),
                 Cond("i", ACTIVITY_IF, TF, {"val"}) >>,
     done |-> {"val", "undef", "throw"}],
    \* 9: SPLIT over a plain function, then one more activity
    [acts |-> << SplitFn("par", VX), Fn("z", {"val"}) >>,
     done |-> {"val"}],
    \* 10: SPLIT over a nested pipeline, then one more activity
    [acts |-> << SplitNest("par", 11), Fn("z", {"val"}) >>,
     done |-> {}],
    \* 11: body of the nested SPLIT
    [acts |-> << Fn("s", VX) >>,
     done |-> {"val"}],
    \* 12, 13: a single activity (used through pipe)
    [acts |-> << Fn("do", VX) >>,
     done |-> {}],
    [acts |-> << Fn("do", {"undef", "errval"}) >>,
     done |-> {}],
    \* 14: an activity registered with a kind that is none of the ACTIVITY
    \* values, then one more activity
    [acts |-> << Cond("amb", AmbiguousKind, TF, {"val"}),
                 Fn("z", {"val"}) >>,
     done |-> {}],
    \* 15: WHILE loop over the nested pipeline 16, then one more activity
    [acts |-> << Nest("loop", ACTIVITY_WHILE, TF, 16), Fn("z", {"val"}) >>,
     done |-> {}],
    \* 16: a loop body: BREAK, then a body
    [acts |-> << Ctl("brk", ACTIVITY_BREAK, TF), Fn("tail", {"val"}) >>,
     done |-> {}],
    \* 17, 18: loop L1 whose body holds loop L2 over the pipeline 16
    [acts |-> << Nest("outer", ACTIVITY_WHILE, TF, 18), Fn("z", {"val"}) >>,
     done |-> {}],
    [acts |-> << Nest("inner", ACTIVITY_WHILE, TF, 16), Fn("mid", {"val"}) >>,
     done |-> {}],
    \* 19: WHILE loop whose callable body returns the builder 20
    [acts |-> << Dyn("loop", ACTIVITY_WHILE, TF, 20), Fn("z", {"val"}) >>,
     done |-> {}],
    \* 20: a loop body: BREAK and CONTINUE before a body
    [acts |-> << Ctl("brk", ACTIVITY_BREAK, TF),
                 Ctl("cnt", ACTIVITY_CONTINUE, TF),
                 Fn("tail", {"val"}) >>,
     done |-> {}],
    \* 21: the same loop with the builder 20 given directly
    [acts |-> << Nest("loop", ACTIVITY_WHILE, TF, 20), Fn("z", {"val"}) >>,
     done |-> {}]
  >>

RunTops == {1, 3, 4, 5, 6, 8, 9, 10, 14}
PipeTops == {12, 13}
SinglePipeTops == {5, 10}
\* pipelines holding loops over nested pipelines: run alone, and piped with
\* two items on two workers
LoopTops == {17, 19, 21}
LoopPipeTops == {15}

\* hk: whether a hook source is attached (it defines setup, cleanup and the
\* activity hooks of HookedNames)
Scenarios ==
  {[mode |-> "run", top |-> b, n |-> 1, k |-> 1, hk |-> h] :
     b \in RunTops, h \in BOOLEAN}
  \cup
  {[mode |-> "pipe", top |-> b, n |-> n, k |-> k, hk |-> TRUE] :
     b \in PipeTops, n \in 0..MaxItems, k \in 1..MaxConcurrent}
  \cup
  \* pipe over one item of a pipeline that starts with a CONTINUE, and of
  \* one with a SPLIT over a nested pipeline
  {[mode |-> "pipe", top |-> b, n |-> 1, k |-> 1, hk |-> TRUE] :
     b \in SinglePipeTops}

LoopScenarios ==
  {[mode |-> "run", top |-> b, n |-> 1, k |-> 1, hk |-> FALSE] :
     b \in LoopTops}
  \cup
  {[mode |-> "pipe", top |-> b, n |-> 2, k |-> 2, hk |-> FALSE] :
     b \in LoopPipeTops}

(***************************************************************************)
(* Runners, wrappers and frames.  A runner caches one ActionWrapper, so    *)
(* the wrapper id is identified with the runner that built it.             *)
(***************************************************************************)
TopRunner == <<-1, 0>>
NoWrapper == <<-1, -1>>
NoParent == <<-1, -1>>

NoVia == <<NoParent, -1, 0>>

\* via: the run and activity whose #execute started this run (bookkeeping)
RunFrame(runner, rid, b, ctx, parent, via) ==
  [type |-> "run", runner |-> runner, rid |-> rid, b |-> b, cursor |-> 0,
   via |-> via,
   ctx |-> ctx, parent |-> parent, caught |-> NoError, pc |-> "start",
   brk |-> FALSE, iter |-> 0, ret |-> NoOutcome, orig |-> Undef,
   subs |-> <<>>, settled |-> <<>>, kids |-> <<>>]

ExecFrame(runner, rid, b, cursor, ctx) ==
  [type |-> "exec", runner |-> runner, rid |-> rid, b |-> b,
   cursor |-> cursor, ctx |-> ctx, pc |-> "call", ret |-> NoOutcome,
   fwd |-> NoWrapper]

PipeEntryAtWorkers == "spawn"

\* pipe() settles the setup steps before anything else
PipeEntry == "setup"

PipeFrame(runner, b, items, maxConcurrent) ==
  [type |-> "pipe", runner |-> runner, b |-> b, items |-> items,
   maxConcurrent |-> maxConcurrent, itemIndex |-> 0,
   allResults |-> [i \in 1..Len(items) |-> Unset], pc |-> PipeEntry,
   ret |-> NoOutcome, kids |-> <<>>, order |-> <<>>]

WorkerFrame(ptid, pdepth) ==
  [type |-> "worker", ptid |-> ptid, pdepth |-> pdepth, cur |-> -1,
   pc |-> "claim", ret |-> NoOutcome]

FreeThread == [st |-> "free", stack |-> <<>>, parent |-> NoParent,
               slot |-> 0, out |-> NoOutcome]

Stack(t) == threads[t].stack
Depth(t) == Len(Stack(t))
Top(t) == Stack(t)[Depth(t)]
Busy(t) == threads[t].st = "busy" /\ Depth(t) > 0
At(t, type, pc) == Busy(t) /\ Top(t).type = type /\ Top(t).pc = pc

ActsOf(b) == Builders[b].acts
ActivityAt(f) == ActsOf(f.b)[f.cursor + 1]

ReplaceTop(stk, f) == [stk EXCEPT ![Len(stk)] = f]
\* what the log keeps of the run a frame belongs to
Of(f) == [rid |-> f.rid, b |-> f.b, via |-> f.via, parent |-> f.parent]
WithTop(t, f) == [threads EXCEPT ![t].stack = ReplaceTop(@, f)]
WithPush(t, f, g) == [threads EXCEPT ![t].stack = Append(ReplaceTop(@, f), g)]
Logged(t, evs) == [log EXCEPT ![t] = @ \o evs]
Fresh(t) == <<t, ctr[t]>>
Fresh2(t) == <<t, ctr[t] + 1>>
Bumped(t, n) == [ctr EXCEPT ![t] = @ + n]

Item(i) == Ctx(i, 0)

\* an async call settles with outcome o: its frame is popped and the
\* awaiting caller receives o; the bottom frame settles the task
Finish(th, t, o) ==
  LET d == Len(th[t].stack) IN
  IF d = 1
  THEN [th EXCEPT ![t].st = "done", ![t].stack = << >>, ![t].out = o]
  ELSE [th EXCEPT ![t].stack = [SubSeq(@, 1, d - 1) EXCEPT ![d - 1].ret = o]]

(***************************************************************************)
(* ActionBuilder: registration of activities and build().  Two builders of *)
(* one action object: builder 1 is new ActionBuilder(action), builder 2 is *)
(* new ActionBuilder(), the operation of an activity of builder 1, which   *)
(* receives the action through withAction when #execute runs it.           *)
(***************************************************************************)
BuilderIds == {1, 2}
ActivityNames == {"a", "b", "s"}
\* the activities action.setup registers on the builder it is given
SetupActs == <<"s">>
NoAction == 0
\* the action given to builder 1, and the action builder 2 may be given at
\* its own construction
TheAction == 1
InnerAction == 2
ActionIds == {TheAction, InnerAction}
NoTag == 0
\* the Symbol each builder takes as its tag at construction
TagOf(b) == b

\* the arguments after the name: their number and the kind among them
DoArgs ==
  {[len |-> 1, kind |-> ACTIVITY_ONCE], [len |-> 3, kind |-> ACTIVITY_WHILE],
   [len |-> 4, kind |-> ACTIVITY_SPLIT], [len |-> 4, kind |-> ACTIVITY_WHILE],
   [len |-> 2, kind |-> ACTIVITY_ONCE]}

NoArgs == [len |-> 0, kind |-> ACTIVITY_ONCE]

NamesOf(acts) == {acts[i].name : i \in 1..Len(acts)}

DupeActivityCheckPassing(acts, name) == TRUE

\* #dupeActivityCheck: Valid.assert(!this.#activities.has(name), ...)
DupeActivityCheck(acts, name) == name \notin NamesOf(acts)

\* the argument checks of do: (kind & ACTIVITY.SPLIT) === ACTIVITY.SPLIT for
\* the 4-argument form, "Invalid number of arguments" for any other number
ArgsAccepted(args) ==
  \/ args.len \in {1, 3}
  \/ args.len = 4 /\ args.kind % 4 = ACTIVITY_SPLIT

\* Map.prototype.set: a present key keeps its place and takes the new value
MapSet(acts, def) ==
  IF def.name \in NamesOf(acts)
  THEN [i \in 1..Len(acts) |->
          IF acts[i].name = def.name THEN def ELSE acts[i]]
  ELSE Append(acts, def)

\* do(name, ...args) on a builder holding acts: whether it returned, and the
\* activities afterwards
Do(acts, name, args) ==
  IF ~DupeActivityCheck(acts, name) THEN [ok |-> FALSE, acts |-> acts]
  ELSE IF ~ArgsAccepted(args) THEN [ok |-> FALSE, acts |-> acts]
  ELSE [ok |-> TRUE,
        acts |-> MapSet(acts, [name |-> name, kind |-> args.kind,
                               len |-> args.len])]

\* action.setup(builder): one do(name, fn) per name of SetupActs, stopping at
\* the first that throws
RECURSIVE Setup(_, _)
Setup(acts, i) ==
  IF i > Len(SetupActs) THEN [ok |-> TRUE, acts |-> acts]
  ELSE LET r == Do(acts, SetupActs[i], [len |-> 1, kind |-> ACTIVITY_ONCE]) IN
       IF r.ok THEN Setup(r.acts, i + 1) ELSE r

NeedsSetupOnEveryBuild(action, tag) == action # NoAction

\* if(action && !action.tag)
NeedsSetup(action, tag) == action # NoAction /\ tag = NoTag

\* build() on builder b of state x
Build(x, b) ==
  LET action == x.action[b] IN
  IF NeedsSetup(action, IF action = NoAction THEN NoTag ELSE x.tag[action])
  THEN LET r == Setup(x.acts[b], 1) IN
       [x EXCEPT !.tag[action] = TagOf(b), !.setups[action] = @ + 1,
                 !.acts[b] = r.acts,
                 !.builds[b] = @ + 1,
                 !.wrapperHooks[b] = x.hooks[b],
                 !.call = [op |-> "build", b |-> b, name |-> "", args |-> NoArgs,
                           ok |-> r.ok]]
  ELSE [x EXCEPT !.builds[b] = @ + 1,
                 !.wrapperHooks[b] = x.hooks[b],
                 !.call = [op |-> "build", b |-> b, name |-> "", args |-> NoArgs,
                           ok |-> TRUE]]

\* withAction(action): if(!this.#action && action) this.#action = action
WithAction(x, b, action) ==
  IF x.action[b] = NoAction /\ action # NoAction
  THEN [x EXCEPT !.action[b] = action]
  ELSE x

NoHooks == 0
\* the ActionHooks instances a builder may be given
HookSources == {1, 2}

\* withHooks(hooks) on a builder whose #hooks is own: whether it returned,
\* and #hooks afterwards
WithHooks(own, hooks) ==
  IF own = hooks THEN [ok |-> TRUE, hooks |-> own]
  ELSE IF own # NoHooks THEN [ok |-> FALSE, hooks |-> own]
  ELSE [ok |-> TRUE, hooks |-> hooks]

NoCall == [op |-> "none", b |-> 0, name |-> "", args |-> NoArgs, ok |-> TRUE]

\* the builders as constructed: builder 2 with the action inner or without
Constructed(inner) ==
  [acts |-> [b \in BuilderIds |-> << >>],
   action |-> [b \in BuilderIds |-> IF b = 1 THEN TheAction ELSE inner],
   tag |-> [a \in ActionIds |-> NoTag],
   setups |-> [a \in ActionIds |-> 0],
   builds |-> [b \in BuilderIds |-> 0],
   hooks |-> [b \in BuilderIds |-> NoHooks],
   wrapperHooks |-> [b \in BuilderIds |-> NoHooks],
   call |-> NoCall, n |-> 0]

\* the builders given the hooks outer and nested by the user
WithSources(x, outer, nested) ==
  [x EXCEPT !.hooks = [b \in BuilderIds |-> IF b = 1 THEN outer ELSE nested]]

NoBuilding == Constructed(NoAction)

NextIndexSame(currentIndex) == currentIndex

\* const currentIndex = itemIndex++: the index left for the next claim
NextIndex(currentIndex) == currentIndex + 1

(***************************************************************************)
(* The first runs of a runner that has not been built: the workers of      *)
(* pipe() each call run(), which builds the wrapper when the runner has    *)
(* none.  The setup of the action is a sequence of steps, "do" registering *)
(* one activity and "await" suspending the setup.                          *)
(***************************************************************************)
MaxSetupLen == 3

SetupSteps == {"do", "await"}

Setups ==
  {s \in UNION {[1..m -> SetupSteps] : m \in 1..MaxSetupLen} :
     \E i \in DOMAIN s : s[i] = "do"}

NoWrapperYet == -1
NotRun == -1

\* the position of the first await of setup s at or after pos
RECURSIVE NextAwait(_, _)
NextAwait(s, pos) ==
  IF pos > Len(s) \/ s[pos] = "await" THEN pos ELSE NextAwait(s, pos + 1)

\* the activities registered by the steps from..(to - 1) of setup s
Registered(s, from, to) == Cardinality({i \in from..(to - 1) : s[i] = "do"})

\* the setup run from pos until it awaits or returns
SetupRun(x, w, pos) ==
  LET p == NextAwait(x.setup, pos) IN
  [x EXCEPT !.activities = @ + Registered(x.setup, pos, p),
            !.w[w].pc = IF p > Len(x.setup) THEN "getHooks" ELSE "setup",
            !.w[w].pos = p + 1]

\* ActionBuilder.build() up to its first await
BuildEnter(x, w) ==
  IF ~x.tag
  THEN SetupRun([x EXCEPT !.tag = TRUE], w, 1)
  ELSE [x EXCEPT !.w[w].pc = "getHooks"]

\* run() once it has its wrapper: the activities it iterates over
RunWith(x, w) ==
  [x EXCEPT !.ran[x.w[w].currentIndex] = x.actionWrapper,
            !.w[w].pc = "exec"]

\* run() up to its first await
RunEnter(x, w) ==
  IF x.actionWrapper = NoWrapperYet THEN BuildEnter(x, w) ELSE RunWith(x, w)

\* processWorker from the top of its loop up to its first await
Claimed(x, w) ==
  LET currentIndex == x.itemIndex
      y == [x EXCEPT !.itemIndex = NextIndex(currentIndex),
                     !.w[w].currentIndex = currentIndex]
  IN IF currentIndex >= x.n
     THEN [y EXCEPT !.w[w].pc = "done"]
     ELSE RunEnter(y, w)

\* the for loop of pipe() that starts the workers one after the other
RECURSIVE Spawned(_, _)
Spawned(x, k) == IF k = 0 THEN x ELSE Claimed(Spawned(x, k - 1), k)

FirstRun(setup, n, k) ==
  [setup |-> setup, n |-> n, activities |-> 0, tag |-> FALSE,
   actionWrapper |-> NoWrapperYet, itemIndex |-> 0,
   ran |-> [i \in 0..(n - 1) |-> NotRun],
   w |-> [i \in 1..Min(k, n) |->
            [pc |-> "claim", currentIndex |-> 0, pos |-> 1,
             built |-> NoWrapperYet]]]

NoFirst == FirstRun(<<"do">>, 0, 0)

(***************************************************************************)
(* ActionHooks.callHook: the hook raced against the timeout.               *)
(***************************************************************************)
HookKinds == {"before", "after"}

\* a hook either runs to its end without yielding (it returns or throws
\* after dur ticks during which no other job runs) or returns a promise
\* that a later job settles, dur ticks after the call
HookBehaviours ==
  [mode : {"blocking", "yielding"}, dur : 0..MaxDuration, out : {"ok", "throw"}]

Hooking(bb, ab) ==
  [beh |-> [k \in HookKinds |-> IF k = "before" THEN bb ELSE ab],
   pos |-> "before", racing |-> FALSE, clock |-> 0,
   timers |-> {}, pending |-> {},
   started |-> [k \in HookKinds |-> -1],
   ended |-> [k \in HookKinds |-> -1],
   callOut |-> [k \in HookKinds |-> "none"],
   runOut |-> "pending"]

NoHooking ==
  Hooking([mode |-> "blocking", dur |-> 0, out |-> "ok"],
          [mode |-> "blocking", dur |-> 0, out |-> "ok"])

\* Activity.run once callHook(kind) settled as out: "ok" (returned), "error"
\* (the hook threw) or "timeout"; a rejected call rejects the run
RaceSettled(h, kind, out) ==
  [h EXCEPT !.racing = FALSE,
            !.callOut[kind] = out,
            !.pos = IF out # "ok" THEN "done"
                    ELSE IF kind = "before" THEN "op" ELSE "done",
            !.runOut = IF out # "ok" THEN "failed"
                       ELSE IF kind = "after" THEN "ok" ELSE @]

LateResultDecides(h, kind, out) ==
  [h EXCEPT !.runOut = IF out = "ok" THEN "ok" ELSE "failed"]

\* a promise given to Promised.race settles after the race has: nothing
\* is waiting for it
LateResult(h, kind, out) == h

Outcome(out) == IF out = "ok" THEN "ok" ELSE "error"

\* the start of callHook(kind): a blocking hook ends inside the call, before
\* any timer can run, and its promise settles the race first
HookStarted(h, kind) ==
  LET b == h.beh[kind]
      g == [h EXCEPT !.started[kind] = h.clock,
                     !.timers = @ \cup {[kind |-> kind,
                                         due |-> h.clock + TimeoutTicks]}]
  IN
  IF b.mode = "blocking"
  THEN RaceSettled([g EXCEPT !.clock = @ + b.dur,
                             !.ended[kind] = h.clock + b.dur],
                   kind, Outcome(b.out))
  ELSE [g EXCEPT !.racing = TRUE,
                 !.pending = @ \cup {[kind |-> kind, due |-> h.clock + b.dur,
                                      out |-> b.out]}]

Racing(h, kind) == h.racing /\ h.pos = kind

\* expireAsync rejects
Expired(h, tm) ==
  LET g == [h EXCEPT !.timers = @ \ {tm}] IN
  IF Racing(h, tm.kind) THEN RaceSettled(g, tm.kind, "timeout")
  ELSE LateResult(g, tm.kind, "throw")

\* hookFunction() settles
HookCompleted(h, p) ==
  LET g == [h EXCEPT !.pending = @ \ {p}, !.ended[p.kind] = h.clock] IN
  IF Racing(h, p.kind) THEN RaceSettled(g, p.kind, Outcome(p.out))
  ELSE LateResult(g, p.kind, p.out)

Started ==
  /\ threads = [t \in Threads |->
       IF t = MainThread
       THEN [st |-> "busy", parent |-> NoParent, slot |-> 0,
             out |-> NoOutcome,
             stack |-> IF scen.mode = "run"
                       THEN << RunFrame(TopRunner, <<t, 0>>, scen.top,
                                        Item(1), NoWrapper, NoVia) >>
                       ELSE << PipeFrame(TopRunner, scen.top,
                                         [i \in 1..scen.n |-> Item(i)],
                                         scen.k) >>]
       ELSE FreeThread]
  /\ log = [t \in Threads |-> <<>>]
  /\ ctr = [t \in Threads |-> IF t = MainThread THEN 1 ELSE 0]
  /\ listeners = {}
  /\ reason = {}
  /\ wrappers = {}
  /\ bld = NoBuilding
  /\ hooking = NoHooking
  /\ first = NoFirst

Init == scen \in Scenarios /\ Started

LoopInit == scen \in LoopScenarios /\ Started

(***************************************************************************)
(* The loop.break channel (NotifyClass on / emit).  A listener is either   *)
(* the break receiver of one loop iteration or the forwarder installed on  *)
(* a nested runner by #execute.                                            *)
(***************************************************************************)
Receiver(f) ==
  [type |-> "recv", on |-> f.runner, wid |-> f.runner,
   owner |-> <<f.rid, f.cursor, f.iter>>, to |-> NoWrapper]

Forwarder(nested, outer) ==
  [type |-> "fwd", on |-> nested, wid |-> NoWrapper,
   owner |-> <<nested, -1, -1>>, to |-> outer]

BreakMatchesAlways(wrapper, actionWrapper) == TRUE

BreakMatchesNever(wrapper, actionWrapper) == FALSE

\* wrapper.id === actionWrapper.id
BreakMatches(wrapper, actionWrapper) == wrapper = actionWrapper

RECURSIVE Flagged(_, _, _)
\* the receivers that set weWereOnABreak when runner r emits loop.break(w)
Flagged(ls, r, w) ==
  {l.owner : l \in {x \in ls : x.type = "recv" /\ x.on = r
                                /\ BreakMatches(w, x.wid)}}
  \cup UNION {Flagged(ls, l.to, w) :
                l \in {x \in ls : x.type = "fwd" /\ x.on = r}}

MarkBreaks(th, owners) ==
  [t \in Threads |->
    [th[t] EXCEPT !.stack =
      [d \in 1..Len(th[t].stack) |->
        LET g == th[t].stack[d] IN
        IF g.type = "run" /\ g.pc \in {"body", "bodyret"}
           /\ <<g.rid, g.cursor, g.iter>> \in owners
        THEN [g EXCEPT !.brk = TRUE] ELSE g]]]

(***************************************************************************)
(* ActionRunner.run                                                        *)
(***************************************************************************)
\* catch(error) { throw Sass.new("ActionRunner running activity", error) }
\* followed by the outer catch(err) { caughtError = err }
ThrowGoesOn(f, e) ==
  [f EXCEPT !.caught = Wrap("ActionRunner running activity", e),
            !.cursor = @ + 1, !.pc = "next", !.iter = 0, !.brk = FALSE]

\* catch(error) of run(): the loop over the activities is left
Throw(f, e) ==
  [f EXCEPT !.caught = Wrap("ActionRunner running activity", e),
            !.pc = "done"]

AdvanceSkippingOne(f) ==
  [f EXCEPT !.cursor = Min(@ + 2, Len(ActsOf(f.b))), !.pc = "next",
            !.iter = 0, !.brk = FALSE]

\* cursor++ of the for loop
Advance(f) ==
  [f EXCEPT !.cursor = @ + 1, !.pc = "next", !.iter = 0, !.brk = FALSE]

\* let weWereOnABreak = false; const breakReceiver = this.on("loop.break", ..)
EnterLoopBody(f) == [f EXCEPT !.brk = FALSE, !.pc = "body"]

\* if(!this.#actionWrapper) this.#actionWrapper = await builder.build(this)
RunStart(t) ==
  /\ At(t, "run", "start")
  /\ LET f == Top(t) IN
     /\ wrappers' = wrappers \cup {f.runner}
     /\ threads' = WithTop(t, [f EXCEPT !.pc = "next"])
     /\ log' = Logged(t, << [e |-> "run", rid |-> f.rid, run |-> Of(f), b |-> f.b,
                             runner |-> f.runner, parent |-> f.parent,
                             via |-> f.via, seed |-> f.ctx] >>)
  /\ UNCHANGED <<ctr, listeners, reason, scen, bld, hooking, first>>

EntryPcUntilTestsFirst(kind) ==
  IF kind = 0 THEN "body"
  ELSE IF kind = ACTIVITY_SPLIT THEN "splitter"
  ELSE IF kind \in {ACTIVITY_BREAK, ACTIVITY_CONTINUE, ACTIVITY_IF,
                    ACTIVITY_WHILE, ACTIVITY_UNTIL} THEN "pred"
  ELSE "body"

\* the branch of run taken for an activity kind: where the activity starts
EntryPc(kind) ==
  IF kind = 0 THEN "body"
  ELSE IF kind = ACTIVITY_BREAK \/ kind = ACTIVITY_CONTINUE THEN "pred"
  ELSE IF kind = ACTIVITY_IF THEN "pred"
  ELSE IF kind = ACTIVITY_WHILE THEN "pred"
  ELSE IF kind = ACTIVITY_UNTIL THEN "body"
  ELSE IF kind = ACTIVITY_SPLIT THEN "splitter"
  ELSE "body"

IsLoop(kind) == kind = ACTIVITY_WHILE \/ kind = ACTIVITY_UNTIL

\* head of the for loop and the branch on activity.kind
Dispatch(t) ==
  /\ At(t, "run", "next")
  /\ LET f == Top(t)
         max == Len(ActsOf(f.b))
     IN
     IF ~(f.cursor < max)
     THEN /\ threads' = WithTop(t, [f EXCEPT !.pc = "done"])
          /\ UNCHANGED <<log, listeners>>
     ELSE
       LET a == ActivityAt(f)
           kind == a.kind
           ev == [e |-> "act", rid |-> f.rid, run |-> Of(f), i |-> f.cursor,
                  ctx |-> f.ctx]
           g == IF (kind = ACTIVITY_BREAK \/ kind = ACTIVITY_CONTINUE)
                   /\ f.parent = NoWrapper
                THEN Throw(f, Sass("Invalid use of control flow outside of context.", OriginOf(f.ctx)))
                ELSE IF kind = ACTIVITY_SPLIT /\ ~a.split
                THEN Throw(f, Sass("SPLIT activity requires both splitter and rejoiner functions.", OriginOf(f.ctx)))
                ELSE [f EXCEPT !.pc = EntryPc(kind), !.brk = FALSE]
       IN
       /\ log' = Logged(t, <<ev>>)
       /\ threads' = WithTop(t, g)
       /\ listeners' = IF IsLoop(kind) /\ g.pc = "body"
                       THEN listeners \cup {Receiver(f)}
                       ELSE listeners
  /\ UNCHANGED <<ctr, reason, wrappers, scen, bld, hooking, first>>

\* outcomes a predicate may still produce: a loop gets at most MaxIter
\* iterations in the explored runs
PredOutcomes(f) ==
  LET a == ActivityAt(f) IN
  {r \in a.pouts :
     /\ ~(a.kind = ACTIVITY_WHILE /\ r = "T" /\ f.iter >= MaxIter)
     /\ ~(a.kind = ACTIVITY_UNTIL /\ r = "F" /\ f.iter >= MaxIter)}

LoopEntersWhileAlways(kind, r) ==
  kind = ACTIVITY_WHILE \/ (kind = ACTIVITY_UNTIL /\ r = "F")

\* whether the loop enters its body after predicate result r
LoopEnters(kind, r) ==
  \/ (kind = ACTIVITY_WHILE /\ r = "T")
  \/ (kind = ACTIVITY_UNTIL /\ r = "F")

AfterContinueNextActivity(f, max) ==
  [f EXCEPT !.cursor = @ + 1, !.pc = "next"]

\* if(kindContinue) cursor = max, followed by the cursor++ of the for loop
AfterContinue(f, max) == [f EXCEPT !.cursor = max + 1, !.pc = "next"]

\* #evalPredicate and the branch the caller takes on its result
EvalPredicate(t) ==
  /\ At(t, "run", "pred")
  /\ LET f == Top(t)
         a == ActivityAt(f)
         kind == a.kind
         max == Len(ActsOf(f.b))
     IN
     \E r \in PredOutcomes(f) :
       LET ev == [e |-> "pred", rid |-> f.rid, run |-> Of(f),
                  i |-> f.cursor, val |-> r, iter |-> f.iter,
                  ctx |-> f.ctx]
       IN
       IF r = "throw"
       THEN /\ threads' = WithTop(t, Throw(f, UserError(OriginOf(f.ctx))))
            /\ log' = Logged(t, <<ev>>)
            /\ UNCHANGED listeners
       ELSE IF kind = ACTIVITY_BREAK /\ r = "T"
       THEN \* this.emit("loop.break", parentWrapper); break
            /\ threads' = [MarkBreaks(threads,
                                      Flagged(listeners, f.runner, f.parent))
                             EXCEPT ![t].stack =
                               ReplaceTop(@, [f EXCEPT !.pc = "done"])]
            /\ log' = Logged(t, << ev, [e |-> "break", rid |-> f.rid, run |-> Of(f),
                                        i |-> f.cursor,
                                        target |-> f.parent] >>)
            /\ UNCHANGED listeners
       ELSE IF kind = ACTIVITY_CONTINUE /\ r = "T"
       THEN \* cursor = max, then cursor++ of the for loop
            /\ threads' = WithTop(t, AfterContinue(f, max))
            /\ log' = Logged(t, << ev, [e |-> "continue", rid |-> f.rid, run |-> Of(f),
                                        i |-> f.cursor] >>)
            /\ UNCHANGED listeners
       ELSE IF kind = ACTIVITY_IF /\ r = "T"
       THEN /\ threads' = WithTop(t, [f EXCEPT !.pc = "body"])
            /\ log' = Logged(t, <<ev>>)
            /\ UNCHANGED listeners
       ELSE IF LoopEnters(kind, r)
       THEN /\ threads' = WithTop(t, EnterLoopBody(f))
            /\ listeners' = listeners \cup {Receiver(f)}
            /\ log' = Logged(t, <<ev>>)
       ELSE /\ threads' = WithTop(t, Advance(f))
            /\ log' = Logged(t, <<ev>>)
            /\ UNCHANGED listeners
  /\ UNCHANGED <<ctr, reason, wrappers, scen, bld, hooking, first>>

\* context = await this.#execute(activity, context)
ExecuteBody(t) ==
  /\ At(t, "run", "body")
  /\ LET f == Top(t) IN
     /\ threads' = WithPush(t, [f EXCEPT !.pc = "bodyret"],
                            ExecFrame(f.runner, f.rid, f.b, f.cursor, f.ctx))
     /\ log' = Logged(t, << [e |-> "body", rid |-> f.rid, run |-> Of(f), i |-> f.cursor,
                             iter |-> f.iter] >>)
  /\ UNCHANGED <<ctr, listeners, reason, wrappers, scen, bld, hooking, first>>

(***************************************************************************)
(* ActionRunner.#execute and Activity.run                                  *)
(***************************************************************************)
\* what a user op of the activity yields on context c
OpOutcome(o, c) ==
  IF o = "val" THEN Ok(Bump(c))
  ELSE IF o = "undef" THEN Ok(Undef)
  ELSE IF o = "errval" THEN Ok(UserError(OriginOf(c)))
  ELSE Fail(Wrap("Executing activity", UserError(OriginOf(c))))

\* the names N for which the hook source defines before$N and after$N
HookedNames == {"finish", "w", "z", "maybe"}
HookOuts == {"ok", "throw"}
Hooked(a) == scen.hk /\ a.name \in HookedNames

AfterCalledAlways(o) == TRUE

\* whether Activity.run reaches the after hook once the op ended as o
AfterCalled(o) == o # "throw"

\* the ways one Activity.run can go: the outcome of the before hook, of
\* the op and of the after hook ("none": not called)
ActivityRuns(a) ==
  IF Hooked(a)
  THEN {[before |-> "throw", op |-> "none", after |-> "none"]}
       \cup {x \in [before : {"ok"}, op : a.outs,
                     after : HookOuts \cup {"none"}] :
               AfterCalled(x.op) <=> x.after # "none"}
  ELSE {[before |-> "none", op |-> o, after |-> "none"] : o \in a.outs}

\* the calls one Activity.run makes, in order
RunTrace(x) ==
  (IF x.before # "none" THEN <<"before">> ELSE << >>)
  \o (IF x.op # "none" THEN <<"op">> ELSE << >>)
  \o (IF x.after # "none" THEN <<"after">> ELSE << >>)

\* what #execute settles with after Activity.run went as x on context c
ActivityRun(x, c) ==
  IF x.before = "throw" \/ x.after = "throw"
  THEN Fail(Wrap("Executing activity", UserError(OriginOf(c))))
  ELSE OpOutcome(x.op, c)

Execute(t) ==
  /\ At(t, "exec", "call")
  /\ LET f == Top(t)
         a == ActivityAt(f)
     IN
     IF a.opKind = "ActionBuilder"
     THEN \* new runner over activity.op, forwarder, runner.run(context,
          \* activity.wrapper)
          LET nr == Fresh(t) IN
          /\ threads' = WithPush(t, [f EXCEPT !.pc = "nested", !.fwd = nr],
                                 RunFrame(nr, nr, a.sub, f.ctx, f.runner,
                                          <<f.rid, f.cursor, f.b>>))
          /\ listeners' = listeners \cup {Forwarder(nr, f.runner)}
          /\ ctr' = Bumped(t, 1)
          /\ UNCHANGED log
     ELSE IF a.opKind = "Function" /\ a.outs = {"builder"}
     THEN \* result = await activity.run(...) is an ActionBuilder: a new runner
          \* over it, runner.run(context, activity.wrapper)
          LET nr == Fresh(t) IN
          /\ threads' = WithPush(t, [f EXCEPT !.pc = "dynamic", !.fwd = nr],
                                 RunFrame(nr, nr, a.sub, f.ctx, f.runner,
                                          <<f.rid, f.cursor, f.b>>))
          /\ ctr' = Bumped(t, 1)
          /\ UNCHANGED <<log, listeners>>
     ELSE IF a.opKind = "Function"
     THEN \E x \in ActivityRuns(a) :
            LET ev(e, out) == [e |-> e, rid |-> f.rid, b |-> f.b,
                               i |-> f.cursor, out |-> out, arg |-> f.ctx,
                               res |-> IF e = "op"
                                       THEN OpOutcome(out, f.ctx).v
                                       ELSE Undef]
            IN
            /\ threads' = Finish(threads, t, ActivityRun(x, f.ctx))
            /\ log' = Logged(t,
                 [j \in 1..Len(RunTrace(x)) |->
                    ev(RunTrace(x)[j], x[RunTrace(x)[j]])])
            /\ UNCHANGED <<listeners, ctr>>
     ELSE /\ threads' = Finish(threads, t,
                 Fail(Sass("We buy Functions and ActionBuilders. Only. Not whatever that was.", OriginOf(f.ctx))))
          /\ UNCHANGED <<log, listeners, ctr>>
  /\ UNCHANGED <<reason, wrappers, scen, bld, hooking, first>>

\* finally { forwarder() } once the nested run has settled
ExecuteSettled(t) ==
  /\ Busy(t) /\ Top(t).type = "exec" /\ Top(t).pc \in {"nested", "dynamic"}
  /\ LET f == Top(t) IN
     IF f.pc = "nested"
     THEN /\ threads' = Finish(threads, t, f.ret)
          /\ listeners' = listeners \ {Forwarder(f.fwd, f.runner)}
     ELSE \* catch(error) { throw Sass.new("Executing activity", error) }
          /\ threads' = Finish(threads, t,
                 IF f.ret.ok THEN f.ret
                 ELSE Fail(Wrap("Executing activity", f.ret.v)))
          /\ UNCHANGED listeners
  /\ UNCHANGED <<log, ctr, reason, wrappers, scen, bld, hooking, first>>

AfterLoopBodyAwaitingBreak(f, g) ==
  IF f.brk THEN Advance(g) ELSE [g EXCEPT !.pc = "await"]

\* breakReceiver(); if(weWereOnABreak) break: the flag set by the loop.break
\* listener is read once, and without it the loop goes to its next test
AfterLoopBody(f, g) ==
  IF f.brk THEN Advance(g) ELSE [g EXCEPT !.iter = @ + 1, !.pc = "pred"]

\* the statements after "context = await this.#execute(activity, context)"
AfterBody(t) ==
  /\ At(t, "run", "bodyret")
  /\ LET f == Top(t)
         a == ActivityAt(f)
         o == f.ret
         g == [f EXCEPT !.ctx = o.v, !.ret = NoOutcome]
     IN
     IF ~o.ok
     THEN /\ threads' = WithTop(t, Throw([f EXCEPT !.ret = NoOutcome], o.v))
          /\ UNCHANGED listeners
     ELSE IF a.kind = ACTIVITY_WHILE \/ a.kind = ACTIVITY_UNTIL
     THEN \* breakReceiver(); if(weWereOnABreak) break
          /\ listeners' = listeners \ {Receiver(f)}
          /\ threads' = WithTop(t, AfterLoopBody(f, g))
     ELSE /\ threads' = WithTop(t, Advance(g))
          /\ UNCHANGED listeners
  /\ UNCHANGED <<log, ctr, reason, wrappers, scen, bld, hooking, first>>

(***************************************************************************)
(* The done callback and the end of run                                    *)
(***************************************************************************)
DoneAppliesInBodies(f) == Builders[f.b].done # {}

DoneAppliesOnSuccess(f) ==
  Builders[f.b].done # {} /\ f.parent = NoWrapper /\ f.caught = NoError

\* if(actionWrapper.done && !parentWrapper)
DoneApplies(f) == Builders[f.b].done # {} /\ f.parent = NoWrapper

\* if(caughtError) throw caughtError; return context
RunOutcomeReturnsContext(f) == Ok(f.ctx)

\* if(caughtError) throw caughtError; return context
RunOutcome(f) == IF f.caught # NoError THEN Fail(f.caught) ELSE Ok(f.ctx)

DoneFailureKeepsLast(caught, error) ==
  Wrap("ActionRunner running done callback", error)

\* the error of run() once the done callback threw error, caught being the
\* error of the activities (NoError: none)
DoneFailure(caught, error) ==
  IF caught # NoError
  THEN Tantrum("ActionRunner running done callback", <<caught, error>>)
  ELSE Wrap("ActionRunner running done callback", error)

RunDone(t) ==
  /\ At(t, "run", "done")
  /\ LET f == Top(t)
         arg == IF f.caught # NoError THEN f.caught ELSE f.ctx
     IN
     IF DoneApplies(f)
     THEN \E o \in Builders[f.b].done :
            LET g == IF o = "throw"
                     THEN [f EXCEPT !.caught =
                             DoneFailure(f.caught, UserError(OriginOf(arg)))]
                     ELSE [f EXCEPT !.ctx = IF o = "val" THEN Bump(arg)
                                            ELSE Undef]
            IN
            /\ threads' = Finish(threads, t, RunOutcome(g))
            /\ log' = Logged(t, << [e |-> "done", rid |-> f.rid, run |-> Of(f),
                                    arg |-> arg, out |-> o],
                                   [e |-> "end", rid |-> f.rid, run |-> Of(f),
                                    out |-> RunOutcome(g)] >>)
     ELSE /\ threads' = Finish(threads, t, RunOutcome(f))
          /\ log' = Logged(t, << [e |-> "end", rid |-> f.rid, run |-> Of(f),
                                  out |-> RunOutcome(f)] >>)
  /\ UNCHANGED <<ctr, listeners, reason, wrappers, scen, bld, hooking, first>>

(***************************************************************************)
(* Task allocation: the j-th new task takes the j-th smallest free id.     *)
(***************************************************************************)
FreeIds == {u \in Threads : threads[u].st = "free"}
NthFree(j) == CHOOSE u \in FreeIds : Cardinality({v \in FreeIds : v < u}) = j - 1
AllDoneWithoutWaiting(kids) == TRUE

AllDone(kids) == \A j \in 1..Len(kids) : threads[kids[j]].st = "done"
Range(sq) == {sq[j] : j \in 1..Len(sq)}

(***************************************************************************)
(* SPLIT                                                                   *)
(***************************************************************************)
SplitterOuts == {"list", "throw"}
RejoinerOuts == {"val", "throw"}
Sub(c, j) == Ctx(OriginOf(c) * 10 + j, 0)
List(sq) == [vk |-> "list", items |-> sq]

\* splitter.call(activity.action, context) and the fan-out that follows
Splitter(t) ==
  /\ At(t, "run", "splitter")
  /\ LET f == Top(t)
         a == ActivityAt(f)
     IN
     \E so \in SplitterOuts, n \in 0..MaxSplit :
       IF so = "throw"
       THEN /\ n = 0
            /\ threads' = WithTop(t, Throw(f, UserError(OriginOf(f.ctx))))
            /\ log' = Logged(t, << [e |-> "splitter", rid |-> f.rid, run |-> Of(f),
                                    i |-> f.cursor, out |-> "throw"] >>)
            /\ UNCHANGED <<ctr, listeners>>
       ELSE
         LET subs == [j \in 1..n |-> Sub(f.ctx, j)]
             ev == [e |-> "split", rid |-> f.rid, run |-> Of(f), i |-> f.cursor,
                    subs |-> subs]
             g == [f EXCEPT !.orig = f.ctx, !.subs = subs]
         IN
         IF a.opKind = "ActionBuilder"
         THEN \* runner = new this.constructor(activity.op);
              \* settled = await runner.pipe(splitContexts)
              /\ threads' = WithPush(t, [g EXCEPT !.pc = "piperet"],
                     PipeFrame(Fresh(t), a.sub, subs, DefaultMaxConcurrent))
              /\ ctr' = Bumped(t, 1)
              /\ log' = Logged(t, <<ev>>)
              /\ UNCHANGED listeners
         ELSE \* Promised.settle(splitContexts.map(ctx =>
              \*   this.#execute(activity, ctx)))
              /\ Cardinality(FreeIds) >= n
              /\ LET kids == [j \in 1..n |-> NthFree(j)] IN
                 threads' =
                   [u \in Threads |->
                     IF u = t
                     THEN [threads[t] EXCEPT !.stack =
                             ReplaceTop(@, [g EXCEPT !.pc = "join",
                                                     !.kids = kids])]
                     ELSE IF \E j \in 1..n : kids[j] = u
                     THEN LET j == CHOOSE j \in 1..n : kids[j] = u IN
                          [st |-> "busy", parent |-> <<t, Depth(t)>>,
                           slot |-> j, out |-> NoOutcome,
                           stack |-> << ExecFrame(f.runner, f.rid, f.b,
                                                  f.cursor, subs[j]) >>]
                     ELSE threads[u]]
              /\ log' = Logged(t, <<ev>>)
              /\ UNCHANGED <<ctr, listeners>>
  /\ UNCHANGED <<reason, wrappers, scen, bld, hooking, first>>

SettledOfReversed(kids) ==
  [j \in 1..Len(kids) |-> Settle(threads[kids[Len(kids) + 1 - j]].out)]

\* the array Promised.settle resolves to, in the order of the promises
SettledOf(kids) == [j \in 1..Len(kids) |-> Settle(threads[kids[j]].out)]

JoinedFrameRejectingOnFirstFailure(f, settled) ==
  IF \E j \in 1..Len(settled) : settled[j].status = "rejected"
  THEN Throw([f EXCEPT !.kids = << >>],
             settled[CHOOSE j \in 1..Len(settled) :
                       settled[j].status = "rejected"].reason)
  ELSE [f EXCEPT !.pc = "rejoin", !.settled = settled, !.kids = << >>]

\* settled = await Promised.settle(...): the run resumes with the records
JoinedFrame(f, settled) ==
  [f EXCEPT !.pc = "rejoin", !.settled = settled, !.kids = << >>]

SplitJoin(t) ==
  /\ At(t, "run", "join")
  /\ LET f == Top(t) IN
     /\ AllDone(f.kids)
     /\ threads' =
          [u \in Threads |->
            IF u = t
            THEN [threads[t] EXCEPT !.stack =
                    ReplaceTop(@, JoinedFrame(f, SettledOf(f.kids)))]
            ELSE IF u \in Range(f.kids) THEN FreeThread
            ELSE threads[u]]
  /\ UNCHANGED <<log, ctr, listeners, reason, wrappers, scen, bld, hooking, first>>

\* settled = await runner.pipe(splitContexts) has settled
AfterPipe(t) ==
  /\ At(t, "run", "piperet")
  /\ LET f == Top(t)
         o == f.ret
     IN
     threads' = WithTop(t,
       IF o.ok
       THEN [f EXCEPT !.pc = "rejoin", !.settled = o.v.items,
                      !.ret = NoOutcome]
       ELSE Throw([f EXCEPT !.ret = NoOutcome], o.v))
  /\ UNCHANGED <<log, ctr, listeners, reason, wrappers, scen, bld, hooking, first>>

\* context = await rejoiner.call(activity.action, original, settled)
Rejoin(t) ==
  /\ At(t, "run", "rejoin")
  /\ LET f == Top(t) IN
     \E o \in RejoinerOuts :
       /\ threads' = WithTop(t,
            IF o = "throw"
            THEN Throw(f, UserError(OriginOf(f.orig)))
            ELSE Advance([f EXCEPT !.ctx = Bump(f.orig)]))
       /\ log' = Logged(t, << [e |-> "rejoin", rid |-> f.rid, run |-> Of(f),
                               i |-> f.cursor, orig |-> f.orig,
                               settled |-> f.settled, out |-> o,
                               val |-> IF o = "throw" THEN Undef
                                       ELSE Bump(f.orig)] >>)
  /\ UNCHANGED <<ctr, listeners, reason, wrappers, scen, bld, hooking, first>>

(***************************************************************************)
(* Piper.pipe                                                              *)
(***************************************************************************)
LifecycleOuts == {"ok", "throw"}

RejectsNever(o) == FALSE

\* #processResult: if(Promised.hasRejected(settled)) Promised.throw(settled)
Rejects(o) == o = "throw"

\* the setup step registered by the ActionRunner constructor
\* (#setupHooks), settled and checked by #processResult
PipeSetup(t) ==
  /\ At(t, "pipe", "setup")
  /\ LET f == Top(t) IN
     IF scen.hk
     THEN \E o \in LifecycleOuts :
            /\ threads' =
                 IF Rejects(o)
                 THEN Finish(threads, t,
                             Fail(Tantrum("setup", <<UserError(0)>>)))
                 ELSE WithTop(t, [f EXCEPT !.pc = "spawn"])
            /\ log' = Logged(t, << [e |-> "setup", rid |-> NoParent, runner |-> f.runner,
                                    out |-> o] >>)
     ELSE /\ threads' = WithTop(t, [f EXCEPT !.pc = "spawn"])
          /\ UNCHANGED log
  /\ UNCHANGED <<ctr, listeners, reason, wrappers, scen, bld, hooking, first>>

WorkerCountPerItem(f) == Len(f.items)

\* const workerCount = Math.min(maxConcurrent, items.length)
WorkerCount(f) == Min(f.maxConcurrent, Len(f.items))

StepParentIsRunner(runner) == runner

\* the process step is run.bind(runner) called as step.fn(result): run's
\* parentWrapper takes its default, null
StepParent(runner) == NoWrapper

\* workers.push(processWorker()): every worker runs up to its first await,
\* so worker j has claimed index j - 1 when the loop ends
HasReasonNever(runner) == FALSE

\* get reason(): the abort reason recorded on the runner, if any
HasReason(runner) == runner \in reason

PipeSpawn(t) ==
  /\ At(t, "pipe", "spawn")
  /\ LET f == Top(t)
         wc == WorkerCount(f)
         aborted == HasReason(f.runner)
     IN
     /\ Cardinality(FreeIds) >= wc
     /\ LET kids == [j \in 1..wc |-> NthFree(j)]
            slotOf(u) == CHOOSE j \in 1..wc : kids[j] = u
        IN
        /\ threads' =
             [u \in Threads |->
               IF u = t
               THEN [threads[t] EXCEPT !.stack =
                       ReplaceTop(@, [f EXCEPT !.pc = "wait", !.kids = kids,
                            !.itemIndex = IF aborted THEN 0 ELSE wc])]
               ELSE IF u \in Range(kids)
               THEN IF aborted
                    THEN [st |-> "done", parent |-> <<t, Depth(t)>>,
                          slot |-> slotOf(u), out |-> Ok(Undef),
                          stack |-> << >>]
                    ELSE [st |-> "busy", parent |-> <<t, Depth(t)>>,
                          slot |-> slotOf(u), out |-> NoOutcome,
                          stack |-> <<
                            [WorkerFrame(t, Depth(t)) EXCEPT
                               !.cur = slotOf(u) - 1, !.pc = "await"],
                            RunFrame(f.runner, <<u, ctr[u]>>, f.b,
                                     f.items[slotOf(u)],
                                     StepParent(f.runner), NoVia) >>]
               ELSE threads[u]]
        /\ ctr' = [u \in Threads |->
                    IF u \in Range(kids) /\ ~aborted THEN ctr[u] + 1
                    ELSE ctr[u]]
        /\ log' = [u \in Threads |->
                    IF u \in Range(kids) /\ ~aborted
                    THEN log[u] \o << [e |-> "claim", pipe |-> f.runner,
                                       idx |-> slotOf(u) - 1,
                                       item |-> f.items[slotOf(u)],
                                       rid |-> NoParent,
                                       started |-> <<u, ctr[u]>>] >>
                    ELSE log[u]]
  /\ UNCHANGED <<listeners, reason, wrappers, scen, bld, hooking, first>>

\* while(true && !this.reason) { const currentIndex = itemIndex++ ... }
WorkerClaim(t) ==
  /\ At(t, "worker", "claim")
  /\ LET f == Top(t)
         p == threads[f.ptid].stack[f.pdepth]
         cur == p.itemIndex
     IN
     IF HasReason(p.runner)
     THEN /\ threads' = Finish(threads, t, Ok(Undef))
          /\ UNCHANGED <<log, ctr>>
     ELSE IF cur >= Len(p.items)
     THEN /\ threads' = Finish([threads EXCEPT
                ![f.ptid].stack[f.pdepth].itemIndex = NextIndex(cur)], t,
                                 Ok(Undef))
          /\ UNCHANGED <<log, ctr>>
     ELSE /\ threads' = [threads EXCEPT
                ![f.ptid].stack[f.pdepth].itemIndex = NextIndex(cur),
                ![t].stack = Append(
                   ReplaceTop(@, [f EXCEPT !.pc = "await", !.cur = cur]),
                   RunFrame(p.runner, Fresh(t), p.b, p.items[cur + 1],
                            StepParent(p.runner), NoVia))]
          /\ ctr' = Bumped(t, 1)
          /\ log' = Logged(t, << [e |-> "claim", pipe |-> p.runner,
                                  idx |-> cur, item |-> p.items[cur + 1],
                                  rid |-> NoParent,
                                  started |-> Fresh(t)] >>)
  /\ UNCHANGED <<listeners, reason, wrappers, scen, bld, hooking, first>>

\* #processItem: result = await step.fn(result) ?? result, the step being
\* required
ProcessItem(item, o) ==
  IF o.ok THEN Ok(IF o.v.vk = "undef" THEN item ELSE o.v)
  ELSE Fail(Wrap("Processing required step", o.v))

\* the settlement record the worker stores for an item
RecordOf(item, o) ==
  LET po == ProcessItem(item, o) IN
  IF po.ok
  THEN IF IsError(po.v) THEN Rejected(po.v) ELSE Fulfilled(po.v)
  ELSE Rejected(po.v)

StoreIndexFirst(currentIndex) == 1

\* allResults[currentIndex] = ...
StoreIndex(currentIndex) == currentIndex + 1

AfterSettleStopOnFailure(o) == IF o.ok THEN "claim" ELSE "stop"

\* the worker's while loop goes on to the next item whatever the outcome
AfterSettle(o) == "claim"

WorkerSettle(t) ==
  /\ At(t, "worker", "await")
  /\ LET f == Top(t)
         p == threads[f.ptid].stack[f.pdepth]
         item == p.items[f.cur + 1]
         stored == [threads EXCEPT
            ![f.ptid].stack[f.pdepth].allResults[StoreIndex(f.cur)] =
               RecordOf(item, f.ret),
            ![f.ptid].stack[f.pdepth].order = Append(@, f.cur),
            ![t].stack = ReplaceTop(@, [f EXCEPT !.pc = "claim",
                                                 !.ret = NoOutcome])]
     IN
     /\ threads' = IF AfterSettle(f.ret) = "claim" THEN stored
                   ELSE Finish(stored, t, Ok(Undef))
     /\ log' = Logged(t, << [e |-> "settle", rid |-> NoParent, pipe |-> p.runner,
                             idx |-> f.cur, out |-> f.ret] >>)
  /\ UNCHANGED <<ctr, listeners, reason, wrappers, scen, bld, hooking, first>>

\* await Promise.all(workers)
PipeJoin(t) ==
  /\ At(t, "pipe", "wait")
  /\ LET f == Top(t) IN
     /\ AllDone(f.kids)
     /\ threads' =
          [u \in Threads |->
            IF u = t
            THEN [threads[t] EXCEPT !.stack =
                    ReplaceTop(@, [f EXCEPT !.pc = "teardown",
                                            !.kids = << >>])]
            ELSE IF u \in Range(f.kids) THEN FreeThread
            ELSE threads[u]]
  /\ UNCHANGED <<log, ctr, listeners, reason, wrappers, scen, bld, hooking, first>>

TeardownOutcomeKeepsResults(f, o) == Ok(List(f.allResults))

\* what pipe() settles with once the teardown steps settled as o: the
\* failure thrown by #processResult in the finally block, else allResults
TeardownOutcome(f, o) ==
  IF Rejects(o) THEN Fail(Tantrum("teardown", <<UserError(0)>>))
  ELSE Ok(List(f.allResults))

\* finally { teardown }, then return allResults
PipeTeardown(t) ==
  /\ At(t, "pipe", "teardown")
  /\ LET f == Top(t) IN
     IF scen.hk
     THEN \E o \in LifecycleOuts :
            /\ threads' = Finish(threads, t, TeardownOutcome(f, o))
            /\ log' = Logged(t, << [e |-> "cleanup", rid |-> NoParent, runner |-> f.runner,
                                    out |-> o, order |-> f.order] >>)
     ELSE /\ threads' = Finish(threads, t, Ok(List(f.allResults)))
          /\ UNCHANGED log
  /\ UNCHANGED <<ctr, listeners, reason, wrappers, scen, bld, hooking, first>>

\* someone emits "abort" on the runner while pipe is in flight
Abort ==
  /\ scen.mode = "pipe"
  /\ threads[MainThread].st = "busy"
  /\ TopRunner \notin reason
  /\ reason' = reason \cup {TopRunner}
  /\ UNCHANGED <<threads, log, ctr, listeners, wrappers, scen, bld, hooking, first>>

Step(t) ==
  \/ RunStart(t)
  \/ Dispatch(t)
  \/ EvalPredicate(t)
  \/ ExecuteBody(t)
  \/ Execute(t)
  \/ ExecuteSettled(t)
  \/ AfterBody(t)
  \/ RunDone(t)
  \/ Splitter(t)
  \/ SplitJoin(t)
  \/ AfterPipe(t)
  \/ Rejoin(t)
  \/ PipeSetup(t)
  \/ PipeSpawn(t)
  \/ WorkerClaim(t)
  \/ WorkerSettle(t)
  \/ PipeJoin(t)
  \/ PipeTeardown(t)

Next == (\E t \in Threads : Step(t)) \/ Abort

Spec == Init /\ [][Next]_vars

(***************************************************************************)
(* The calls made on the two builders, by the user and by the runners.     *)
(***************************************************************************)
Idle ==
  /\ threads = [t \in Threads |-> FreeThread]
  /\ log = [t \in Threads |-> << >>]
  /\ ctr = [t \in Threads |-> 0]
  /\ listeners = {}
  /\ reason = {}
  /\ wrappers = {}
  /\ scen = [mode |-> "build", top |-> 1, n |-> 0, k |-> 1, hk |-> FALSE]

BuilderInit ==
  /\ Idle
  /\ bld \in {Constructed(inner) : inner \in {NoAction, InnerAction}}
  /\ hooking = NoHooking
  /\ first = NoFirst

Called(x) == [x EXCEPT !.n = @ + 1]

\* builder.do(name, ...args)
DoCall(b, name, args) ==
  /\ bld.n < MaxCalls
  /\ LET r == Do(bld.acts[b], name, args) IN
     bld' = Called([bld EXCEPT !.acts[b] = r.acts,
                               !.call = [op |-> "do", b |-> b, name |-> name,
                                         args |-> args, ok |-> r.ok]])
  /\ UNCHANGED <<threads, log, ctr, listeners, reason, wrappers, scen, hooking, first>>

\* the first run() of a runner of builder b:
\* this.#actionWrapper = await this.#actionBuilder.build(this)
BuildCall(b) ==
  /\ bld.n < MaxCalls
  /\ bld' = Called(Build(bld, b))
  /\ UNCHANGED <<threads, log, ctr, listeners, reason, wrappers, scen, hooking, first>>

\* #execute of an activity of builder 1 whose operation is builder 2, once
\* per loop iteration or SPLIT item: withAction, withHooks when the
\* activity has hooks, a new runner, its run()
ExecuteNested ==
  /\ bld.n < MaxCalls
  /\ bld.builds[1] > 0
  /\ LET x == WithAction(bld, 2, bld.action[1])
         hooks == bld.wrapperHooks[1]
         r == IF hooks # NoHooks THEN WithHooks(x.hooks[2], hooks)
              ELSE [ok |-> TRUE, hooks |-> x.hooks[2]]
     IN
     bld' = Called(IF r.ok
                   THEN Build([x EXCEPT !.hooks[2] = r.hooks], 2)
                   ELSE [x EXCEPT !.call = [op |-> "execute", b |-> 2,
                                            name |-> "", args |-> NoArgs,
                                            ok |-> FALSE]])
  /\ UNCHANGED <<threads, log, ctr, listeners, reason, wrappers, scen, hooking, first>>

BuilderNext ==
  \/ \E b \in BuilderIds, name \in ActivityNames, args \in DoArgs :
       DoCall(b, name, args)
  \/ \E b \in BuilderIds : BuildCall(b)
  \/ ExecuteNested

BuilderSpec == BuilderInit /\ [][BuilderNext]_vars

(***************************************************************************)
(* One Activity.run with hooks on the clock: callHook("before"), the op,   *)
(* callHook("after").  Each action is one job of the event loop together   *)
(* with the promise reactions it triggers.                                 *)
(***************************************************************************)
HookInit ==
  /\ Idle
  /\ bld = NoBuilding
  /\ hooking \in {Hooking(bb, ab) : bb \in HookBehaviours, ab \in HookBehaviours}
  /\ first = NoFirst

Outstanding == hooking.timers \cup hooking.pending
Due == {x \in Outstanding : x.due <= hooking.clock}

\* callHook(kind, ...): expireAsync starts its timer, then hookFunction()
\* calls the hook
StartHook ==
  /\ hooking.pos \in HookKinds
  /\ ~hooking.racing
  /\ hooking' = HookStarted(hooking, hooking.pos)
  /\ UNCHANGED <<threads, log, ctr, listeners, reason, wrappers, scen, bld, first>>

\* result = await this.#op.call(...) between the two hooks
RunOp ==
  /\ hooking.pos = "op"
  /\ \E o \in {"val", "throw"} :
       hooking' = IF o = "val" THEN [hooking EXCEPT !.pos = "after"]
                  ELSE [hooking EXCEPT !.pos = "done", !.runOut = "failed"]
  /\ UNCHANGED <<threads, log, ctr, listeners, reason, wrappers, scen, bld, first>>

\* the timer of an expireAsync runs out: it throws the timeout error
TimerFires ==
  /\ \E tm \in hooking.timers \cap Due : hooking' = Expired(hooking, tm)
  /\ UNCHANGED <<threads, log, ctr, listeners, reason, wrappers, scen, bld, first>>

\* a hook that had returned a pending promise settles it
HookSettles ==
  /\ \E p \in hooking.pending \cap Due : hooking' = HookCompleted(hooking, p)
  /\ UNCHANGED <<threads, log, ctr, listeners, reason, wrappers, scen, bld, first>>

\* time passes while the event loop has nothing that is due
Tick ==
  /\ Outstanding # {}
  /\ Due = {}
  /\ hooking' = [hooking EXCEPT !.clock = @ + 1]
  /\ UNCHANGED <<threads, log, ctr, listeners, reason, wrappers, scen, bld, first>>

HookNext == StartHook \/ RunOp \/ TimerFires \/ HookSettles \/ Tick

HookSpec == HookInit /\ [][HookNext]_vars

\* every continuation is a job of the event loop, which runs a ready job
\* whenever there is one
LiveSpec == Spec /\ WF_vars(\E t \in Threads : Step(t))

(***************************************************************************)
(* The interpreter on pipelines with loops over nested pipelines: the      *)
(* steps such programs take (no SPLIT, no abort).                          *)
(***************************************************************************)
LoopStep(t) ==
  \/ RunStart(t)
  \/ Dispatch(t)
  \/ EvalPredicate(t)
  \/ ExecuteBody(t)
  \/ Execute(t)
  \/ ExecuteSettled(t)
  \/ AfterBody(t)
  \/ RunDone(t)
  \/ PipeSetup(t)
  \/ PipeSpawn(t)
  \/ WorkerClaim(t)
  \/ WorkerSettle(t)
  \/ PipeJoin(t)
  \/ PipeTeardown(t)

LoopNext == \E t \in Threads : LoopStep(t)

LoopSpec == LoopInit /\ [][LoopNext]_vars

(***************************************************************************)
(* Properties.  The per-task logs record what each task did, in order.     *)
(***************************************************************************)
Events == UNION {{<<t, p>> : p \in 1..Len(log[t])} : t \in Threads}
Ev(x) == log[x[1]][x[2]]
Is(x, e) == Ev(x).e = e
After(x) == {<<x[1], q>> : q \in (x[2] + 1)..Len(log[x[1]])}
Upto(x) == {<<x[1], q>> : q \in 1..(x[2] - 1)}
Between(x, y) == {z \in After(x) : z[2] < y[2]}
\* y is the first event of run rid after x
NextOf(x, y, rid) ==
  /\ y \in After(x)
  /\ Ev(y).rid = rid
  /\ \A z \in Between(x, y) : Ev(z).rid # rid

PipeSettled == scen.mode = "pipe" /\ threads[MainThread].st = "done"
PipeReturned == PipeSettled /\ threads[MainThread].out.ok
Returned == threads[MainThread].out.v.items

\* outcomes of the runs that pipe started on runner r for the item at
\* (0-based) index idx
OutcomesAt(r, idx, item) ==
  {Ev(y).out : y \in UNION {
     {y \in After(x) : Is(y, "end") /\ Ev(y).rid = Ev(x).started} :
       x \in {x \in Events : /\ Is(x, "claim")
                             /\ Ev(x).pipe = r
                             /\ Ev(x).idx = idx
                             /\ Ev(x).item = item}}}
ItemOutcomes(idx) == OutcomesAt(TopRunner, idx, Item(idx + 1))

Failed(o) == ~o.ok \/ IsError(o.v)

\* rec is the settlement record of outcome o of the pipeline run on item
IsRecordOf(rec, item, o) ==
  IF ~Failed(o)
  THEN rec = Fulfilled(IF o.v = Undef THEN item ELSE o.v)
  ELSE /\ rec.status = "rejected"
       /\ IF o.ok THEN rec.reason = o.v ELSE rec.reason.cause = <<o.v>>

AllRecorded ==
  /\ Len(Returned) = scen.n
  /\ \A i \in 1..scen.n :
       \E o \in ItemOutcomes(i - 1) : IsRecordOf(Returned[i], Item(i), o)

\* C1 (as stated): whenever pipe(items, k) resolves, the array holds one
\* settlement record per item and record i is the outcome of the run on
\* items[i], whatever the order in which the workers completed.
C1_AsStated == PipeReturned => AllRecorded

\* C1 (amended): the same, provided no "abort" reason was recorded on the
\* runner while pipe() was in flight; after an abort the workers stop
\* claiming and the unclaimed indices keep no record.
C1_Amended == (PipeReturned /\ TopRunner \notin reason) => AllRecorded

\* two workers, and the item at index 1 settled before the item at index 0
C1_Witness ==
  /\ PipeReturned
  /\ reason = {}
  /\ scen.n >= 2 /\ scen.k >= 2
  /\ AllRecorded
  /\ \E x \in Events : /\ Is(x, "cleanup")
                       /\ Ev(x).runner = TopRunner
                       /\ Len(Ev(x).order) = scen.n
                       /\ Ev(x).order[1] # 0

LifecycleThrew ==
  \E x \in Events : /\ Ev(x).e \in {"setup", "cleanup"}
                    /\ Ev(x).runner = TopRunner
                    /\ Ev(x).out = "throw"

SetupThrew ==
  \E x \in Events : /\ Is(x, "setup")
                    /\ Ev(x).runner = TopRunner
                    /\ Ev(x).out = "throw"

\* C2: once pipe() has settled, for every item whose run failed: pipe()
\* threw only if a lifecycle hook threw; the failing item is rejected at its
\* own index; every other item was run (unless an abort stopped the
\* workers) and its record is the outcome of its own run.
C2_FailureIsolated ==
  (PipeSettled /\ ~SetupThrew) =>
    \A i \in 1..scen.n : \A o \in ItemOutcomes(i - 1) :
      Failed(o) =>
        /\ ~threads[MainThread].out.ok => LifecycleThrew
        /\ PipeReturned => IsRecordOf(Returned[i], Item(i), o)
        /\ \A j \in (1..scen.n) \ {i} :
             /\ ItemOutcomes(j - 1) = {} => TopRunner \in reason
             /\ PipeReturned =>
                  \A oj \in ItemOutcomes(j - 1) :
                    IsRecordOf(Returned[j], Item(j), oj)

\* the first item threw, the second one was still run and fulfilled
C2_Witness ==
  /\ PipeReturned
  /\ reason = {}
  /\ scen.n >= 2
  /\ \E o \in ItemOutcomes(0) : ~o.ok
  /\ Returned[1].status = "rejected"
  /\ Returned[2].status = "fulfilled"

(***************************************************************************)
(* Activities of a run and the loop a run is the body of.                  *)
(***************************************************************************)
ActivityOf(x) == ActsOf(Ev(x).run.b)[Ev(x).i + 1]
IsAt(x, e, kind) == Is(x, e) /\ ActivityOf(x).kind = kind
LastIndex(x) == Len(ActsOf(Ev(x).run.b)) - 1
SameActivity(x, y) == Ev(x).rid = Ev(y).rid /\ Ev(x).i = Ev(y).i
LoopRun(x) == Ev(x).run.via[1]
LoopIndex(x) == Ev(x).run.via[2]
LoopLast(x) == Len(ActsOf(Ev(x).run.via[3])) - 1
\* the run of event x is the nested-pipeline body of a WHILE or UNTIL
InLoopBody(x) ==
  /\ Ev(x).run.via # NoVia
  /\ ActsOf(Ev(x).run.via[3])[LoopIndex(x) + 1].kind
       \in {ACTIVITY_WHILE, ACTIVITY_UNTIL}
TopLevel(x) == Ev(x).run.parent = NoWrapper

\* C3: after a BREAK whose predicate was true in the nested-pipeline body
\* of a WHILE/UNTIL loop, the body run does nothing more, the loop neither
\* tests its predicate nor enters its body again, and the enclosing run
\* goes on with the activity that follows the loop (or ends, if none).
C3_BreakLeavesLoop ==
  \A x \in Events :
    (Is(x, "break") /\ InLoopBody(x)) =>
      /\ \A y \in After(x) :
           /\ Ev(y).rid = Ev(x).rid => (Is(y, "end") /\ Ev(y).out.ok)
           /\ (Ev(y).rid = LoopRun(x) /\ Ev(y).e \in {"body", "pred"})
                => Ev(y).i # LoopIndex(x)
           /\ NextOf(x, y, LoopRun(x)) =>
                IF LoopIndex(x) < LoopLast(x)
                THEN Is(y, "act") /\ Ev(y).i = LoopIndex(x) + 1
                ELSE Ev(y).e \in {"done", "end"}

\* a BREAK with body activities left to skip, and the run resumed after
\* the loop
C3_Witness ==
  \E x \in Events :
    /\ Is(x, "break") /\ InLoopBody(x)
    /\ Ev(x).i < LastIndex(x)
    /\ \E y \in After(x) :
         /\ Ev(y).rid = LoopRun(x)
         /\ Is(y, "act")
         /\ Ev(y).i = LoopIndex(x) + 1

\* C4 (as stated): a BREAK or CONTINUE activity reached in a run that is
\* not the body of a WHILE/UNTIL activity (a top-level run, the body of an
\* IF or of a plain activity) makes that run fail: nothing of the run
\* follows but its failed end.
C4_AsStated ==
  \A x \in Events :
    (/\ Is(x, "act")
     /\ ActivityOf(x).kind \in {ACTIVITY_BREAK, ACTIVITY_CONTINUE}
     /\ ~InLoopBody(x)) =>
      \A y \in After(x) :
        Ev(y).rid = Ev(x).rid =>
          /\ Ev(y).e \in {"done", "end"}
          /\ Is(y, "end") => ~Ev(y).out.ok

\* C5: after a CONTINUE whose predicate was true in the nested-pipeline
\* body of a WHILE/UNTIL loop, the body run does nothing more and ends
\* normally, and the next thing the loop does is evaluate its predicate.
C5_ContinueSkipsRest ==
  \A x \in Events :
    (Is(x, "continue") /\ InLoopBody(x)) =>
      \A y \in After(x) :
        /\ Ev(y).rid = Ev(x).rid => (Is(y, "end") /\ Ev(y).out.ok)
        /\ NextOf(x, y, LoopRun(x)) =>
             (Is(y, "pred") /\ Ev(y).i = LoopIndex(x))

\* a CONTINUE with body activities left to skip, after which the loop
\* tested its predicate and entered its body again
C5_Witness ==
  \E x \in Events :
    /\ Is(x, "continue") /\ InLoopBody(x)
    /\ Ev(x).i < LastIndex(x)
    /\ \E y \in After(x) :
         /\ Ev(y).rid = LoopRun(x)
         /\ Is(y, "body")
         /\ Ev(y).i = LoopIndex(x)

\* C6: the body of a WHILE activity is entered only directly after an
\* evaluation of its predicate that returned true, and after an evaluation
\* that returned false neither the predicate nor the body runs again.
C6_While ==
  \A x \in Events :
    /\ IsAt(x, "body", ACTIVITY_WHILE) =>
         /\ x[2] > 1
         /\ LET w == <<x[1], x[2] - 1>> IN
            Is(w, "pred") /\ SameActivity(w, x) /\ Ev(w).val = "T"
    /\ (IsAt(x, "pred", ACTIVITY_WHILE) /\ Ev(x).val = "F") =>
         \A y \in After(x) :
           Ev(y).e \in {"pred", "body"} => ~SameActivity(x, y)

\* a WHILE loop that ran its body, then saw false and handed over to the
\* next activity
C6_Witness ==
  \E x \in Events :
    /\ IsAt(x, "pred", ACTIVITY_WHILE) /\ Ev(x).val = "F" /\ Ev(x).iter >= 1
    /\ \E y \in After(x) :
         /\ Ev(y).rid = Ev(x).rid
         /\ Is(y, "act") /\ Ev(y).i = Ev(x).i + 1

\* C7: an UNTIL activity enters its body first; its predicate is evaluated
\* only after an execution of the body; a false result leads back into the
\* body and the first true result ends the loop.
C7_Until ==
  \A x \in Events :
    /\ (IsAt(x, "act", ACTIVITY_UNTIL) /\ x[2] < Len(log[x[1]])) =>
         LET y == <<x[1], x[2] + 1>> IN
         Is(y, "body") /\ SameActivity(x, y)
    /\ IsAt(x, "pred", ACTIVITY_UNTIL) =>
         /\ \E y \in Upto(x) :
              /\ Is(y, "body") /\ SameActivity(x, y)
              /\ Ev(y).iter = Ev(x).iter - 1
         /\ Ev(x).val = "T" =>
              \A y \in After(x) :
                Ev(y).e \in {"pred", "body"} => ~SameActivity(x, y)
         /\ (Ev(x).val = "F" /\ x[2] < Len(log[x[1]])) =>
              LET y == <<x[1], x[2] + 1>> IN
              Is(y, "body") /\ SameActivity(x, y)

\* an UNTIL loop that ran its body twice, saw true and handed over to the
\* next activity
C7_Witness ==
  \E x \in Events :
    /\ IsAt(x, "pred", ACTIVITY_UNTIL) /\ Ev(x).val = "T" /\ Ev(x).iter >= 2
    /\ \E y \in After(x) :
         /\ Ev(y).rid = Ev(x).rid
         /\ Is(y, "act") /\ Ev(y).i = Ev(x).i + 1

(***************************************************************************)
(* SPLIT: sub-contexts, their executions and the records handed over.      *)
(***************************************************************************)
\* outcomes of the executions of the callable body of the activity of
\* event x on sub-context sub
CallsOn(x, sub) ==
  {Ev(y).out : y \in {y \in Events : /\ Is(y, "op")
                                     /\ SameActivity(x, y)
                                     /\ Ev(y).arg = sub}}

\* outcomes of the finished runs of a nested pipeline on sub-context sub,
\* the j-th element of the list
RunsOn(sub, j) ==
  UNION {OutcomesAt(r, j - 1, sub) :
           r \in {Ev(c).pipe : c \in {c \in Events : Is(c, "claim")}}
                 \ {TopRunner}}

\* rec is the allSettled record of a call of a callable body on sub that
\* ended as out
IsCallRecord(rec, sub, out) ==
  IF out = "throw"
  THEN rec.status = "rejected" /\ rec.reason.o = sub.o
  ELSE /\ rec.status = "fulfilled"
       /\ IF out = "undef" THEN rec.value = Undef
          ELSE rec.value.o = sub.o

Nested(x) == ActivityOf(x).opKind = "ActionBuilder"

\* rec is the record of the execution of sub, the j-th sub-context of the
\* activity of event x
IsSubRecord(rec, sub, j, x) ==
  IF Nested(x)
  THEN \E o \in RunsOn(sub, j) : IsRecordOf(rec, sub, o)
  ELSE \E out \in CallsOn(x, sub) : IsCallRecord(rec, sub, out)

SubFailed(sub, j, x) ==
  IF Nested(x)
  THEN \E o \in RunsOn(sub, j) : Failed(o)
  ELSE "throw" \in CallsOn(x, sub)

Rejoins(S, x) == {r \in S : Is(r, "rejoin") /\ SameActivity(r, x)}
Splits(S, x) == {s \in S : Is(s, "split") /\ SameActivity(s, x)}

Mixed(settled) ==
  /\ Len(settled) >= 2
  /\ \E j \in 1..Len(settled) : settled[j].status = "rejected"
  /\ \E j \in 1..Len(settled) : settled[j].status = "fulfilled"

IsSubContext(c) == c.o >= 10

LifecycleThrewIn(S) ==
  \E z \in S : Ev(z).e \in {"setup", "cleanup"} /\ Ev(z).out = "throw"

\* C9: the error a run() of a pipeline with SPLIT activities ends with
\* never stems from a sub-context; a rejoiner receives a rejected record
\* exactly for the sub-contexts that failed, every sub-context having been
\* executed; and once a sub-context has failed the run gets past the SPLIT
\* only through the rejoiner (or through a lifecycle hook of the nested
\* runner that threw).
C9_SplitFailureContained ==
  \A x \in Events :
    /\ (Is(x, "end") /\ ~Ev(x).out.ok) =>
         \A r \in Upto(x) :
           (/\ Is(r, "run") /\ Ev(r).rid = Ev(x).rid
            /\ ~IsSubContext(Ev(r).seed)) =>
             ~IsSubContext(Ev(x).out.v)
    /\ Is(x, "rejoin") =>
         \A s \in Splits(Upto(x), x) : \A j \in 1..Len(Ev(s).subs) :
           /\ j <= Len(Ev(x).settled)
           /\ Ev(x).settled[j].status = "rejected"
                <=> SubFailed(Ev(s).subs[j], j, x)
           /\ Ev(x).settled[j].status = "fulfilled"
                <=> ~SubFailed(Ev(s).subs[j], j, x)
    /\ (/\ Is(x, "split")
        /\ \E j \in 1..Len(Ev(x).subs) : SubFailed(Ev(x).subs[j], j, x)) =>
         \A y \in After(x) :
           (Ev(y).rid = Ev(x).rid /\ Ev(y).e \in {"act", "done", "end"}) =>
             \/ Rejoins(Between(x, y), x) # {}
             \/ LifecycleThrewIn(Between(x, y))

\* a SPLIT over a nested pipeline one of whose sub-contexts failed: the
\* rejoiner got a rejected and a fulfilled record and the run ended well
C9_Witness ==
  \E x \in Events :
    /\ Is(x, "rejoin") /\ Nested(x)
    /\ Mixed(Ev(x).settled)
    /\ \E y \in After(x) :
         Is(y, "end") /\ Ev(y).rid = Ev(x).rid /\ Ev(y).out.ok

Dones(S, x) == {d \in S : Is(d, "done") /\ Ev(d).rid = Ev(x).rid}

Prev(x) == <<x[1], x[2] - 1>>

\* x records a failure that run() catches as the error of its activity
Threw(x) ==
  \/ Is(x, "act")
  \/ Ev(x).e \in {"op", "before", "after", "splitter", "rejoin"}
       /\ Ev(x).out = "throw"
  \/ Is(x, "pred") /\ Ev(x).val = "throw"
  \/ Is(x, "end") /\ ~Ev(x).out.ok

\* the op call of the activity execution whose last call is x
OpOf(x) == IF Is(x, "after") THEN Prev(x) ELSE x

\* the context that the specification prescribes after a body that was
\* handed arg and returned res
Retained(arg, res) == IF res = Undef THEN arg ELSE res

\* the context that the specification prescribes after x, the last event of
\* an activity that did not throw
Produced(x) ==
  IF Ev(x).e \in {"op", "after"}
  THEN Retained(Ev(OpOf(x)).arg, Ev(OpOf(x)).res)
  ELSE IF Is(x, "pred") THEN Ev(x).ctx
  ELSE IF Is(x, "end") THEN Ev(x).out.v
  ELSE Ev(x).val

\* C11: the done callback receives the caught error when an activity threw,
\* and otherwise the final context produced by the last executed activity
\* (the value its body returned, or the context handed to it when the body
\* returned nothing).
C11_AsStated ==
  \A d \in Events :
    Is(d, "done") =>
      IF Threw(Prev(d))
      THEN /\ IsError(Ev(d).arg)
           /\ Ev(d).arg.msg = "ActionRunner running activity"
      ELSE Ev(d).arg = Produced(Prev(d))

\* the part of C11 that the code keeps: the error when an activity threw,
\* else the value of the context variable of run()
C11_ErrorElseContext ==
  \A d \in Events :
    Is(d, "done") =>
      IF Threw(Prev(d))
      THEN /\ IsError(Ev(d).arg)
           /\ Ev(d).arg.msg = "ActionRunner running activity"
      ELSE \/ Ev(d).arg = Produced(Prev(d))
           \/ /\ Ev(Prev(d)).e \in {"op", "after"}
              /\ Ev(OpOf(Prev(d))).res = Undef
              /\ Ev(d).arg = Undef

\* C12: when an activity failed and the done callback throws as well,
\* run() fails with one aggregate error whose causes are the activity error
\* first and the done error second; neither replaces the other.
C12_BothCauses ==
  \A d \in Events :
    (Is(d, "done") /\ Threw(Prev(d)) /\ Ev(d).out = "throw") =>
      LET end == Ev(<<d[1], d[2] + 1>>)
      IN /\ end.e = "end" /\ end.rid = Ev(d).rid
         /\ ~end.out.ok
         /\ Len(end.out.v.cause) = 2
         /\ end.out.v.cause[1] = Ev(d).arg
         /\ end.out.v.cause[1].msg = "ActionRunner running activity"
         /\ end.out.v.cause[2].msg = "user"

C12_Witness ==
  \E d \in Events :
    /\ Is(d, "done") /\ Ev(d).out = "throw"
    /\ Is(Prev(d), "op") /\ Ev(Prev(d)).out = "throw"
    /\ threads[MainThread].st = "done" /\ ~threads[MainThread].out.ok

\* the kind of the activity whose nested-pipeline body the run of x is
ViaKind(x) == ActsOf(Ev(x).run.via[3])[Ev(x).run.via[2] + 1].kind
\* the run of x is the nested-pipeline body of a WHILE, UNTIL or IF
IsBodyRun(x) ==
  /\ Ev(x).run.via # NoVia
  /\ ViaKind(x) \in {ACTIVITY_WHILE, ACTIVITY_UNTIL, ACTIVITY_IF}

\* C13: the done callback registered on a pipeline that runs as the body of
\* a WHILE, UNTIL or IF is invoked on no iteration; of the done callbacks
\* only that of the outermost pipeline runs.
C13_NoDoneInBodies ==
  \A x \in Events :
    /\ (Is(x, "end") /\ IsBodyRun(x)) => Dones(Events, x) = {}
    /\ Is(x, "done") => Ev(x).run.via = NoVia /\ TopLevel(x)

\* body runs of a pipeline that has a done callback ended, under kind, in a
\* run whose own done callback was called afterwards
C13_Seen(kind, n) ==
  \E d \in Events :
    /\ Is(d, "done") /\ TopLevel(d)
    /\ Cardinality({x \in Upto(d) :
          /\ Is(x, "end") /\ IsBodyRun(x) /\ ViaKind(x) = kind
          /\ Ev(x).out.ok
          /\ Ev(x).run.via[1] = Ev(d).rid
          /\ Builders[Ev(x).run.b].done # {}}) >= n

C13_Witness == C13_Seen(ACTIVITY_WHILE, MaxIter)

\* the done events of the runs that a nested runner's pipe started on
\* sub, the j-th sub-context of a SPLIT
DonesOn(sub, j) ==
  {d \in Events :
     /\ Is(d, "done")
     /\ \E c \in Upto(d) : /\ Is(c, "claim") /\ Ev(c).pipe # TopRunner
                           /\ Ev(c).idx = j - 1 /\ Ev(c).item = sub
                           /\ Ev(c).started = Ev(d).rid}

EndsBody(x) ==
  /\ Ev(x).e \in {"op", "after"}
  /\ ActsOf(Ev(x).b)[Ev(x).i + 1].kind # ACTIVITY_SPLIT
  /\ Is(x, "op") =>
       ~(x[2] < Len(log[x[1]]) /\ Is(<<x[1], x[2] + 1>>, "after"))

\* the context that the event y of a run shows: the one an activity or a
\* predicate is handed, the argument of done, the value run() returns
Shows(y, c) ==
  IF Ev(y).e \in {"act", "pred"} THEN Ev(y).ctx = c
  ELSE IF Is(y, "done") THEN Ev(y).arg = c
  ELSE IF Is(y, "end") THEN Ev(y).out = Ok(c)
  ELSE TRUE

\* C15: after an activity whose body returned nothing the context handed to
\* what comes next in the run (the next activity or predicate, the done
\* callback, the caller of run()) is the context that was handed to that
\* activity; after a body that returned a value it is that value.
C15_AsStated ==
  \A x \in Events :
    (EndsBody(x) /\ ~Threw(x)) =>
      \A y \in After(x) :
        NextOf(x, y, Ev(x).rid) => Shows(y, Produced(x))

\* what the code does: the context is whatever the body returned
C15_ResultReplaces ==
  \A x \in Events :
    (EndsBody(x) /\ ~Threw(x)) =>
      \A y \in After(x) :
        NextOf(x, y, Ev(x).rid) => Shows(y, Ev(OpOf(x)).res)

\* the events of activities of the run rid among S
OfRun(S, rid) == {z \in S : Ev(z).rid = rid /\ Ev(z).e \notin {"run", "done", "end"}}

\* the frame that started task u, and the run frame of the SPLIT activity
\* that a task started for a sub-context belongs to
Starter(u) == threads[threads[u].parent[1]].stack[threads[u].parent[2]]
SplitFrame(u) ==
  IF Starter(u).type = "run" THEN Starter(u)
  ELSE threads[threads[u].parent[1]].stack[threads[u].parent[2] - 1]
IsSubExecution(u) ==
  /\ threads[u].st = "busy"
  /\ threads[u].parent[1] \in Threads
  /\ Starter(u).type = "run" \/ threads[u].parent[2] > 1

\* C16: within one run the activities are started one at a time in
\* registration order: the first started is activity 0, the one started
\* after activity i is activity i + 1, and when it starts activity i has
\* finished, with all its loop iterations, nested runs and split
\* sub-executions.
C16_Sequential ==
  /\ \A y \in Events :
       Is(y, "act") =>
         /\ OfRun(Upto(y), Ev(y).rid) = {} => Ev(y).i = 0
         /\ \A x \in OfRun(Upto(y), Ev(y).rid) : Ev(x).i < Ev(y).i
         /\ Ev(y).i > 0 =>
              \E x \in Upto(y) : /\ Is(x, "act") /\ Ev(x).rid = Ev(y).rid
                                 /\ Ev(x).i = Ev(y).i - 1
         \* the nested runs of the earlier activities have ended
         /\ \A r \in Upto(y) :
              (Is(r, "run") /\ Ev(r).run.via[1] = Ev(y).rid) =>
                \E z \in Between(r, y) : Is(z, "end") /\ Ev(z).rid = Ev(r).rid
  \* while a sub-execution of a SPLIT is in flight its run waits at the SPLIT
  /\ \A u \in Threads :
       IsSubExecution(u) =>
         LET f == SplitFrame(u)
             t == threads[u].parent[1]
         IN /\ f.type = "run" /\ f.pc \in {"join", "piperet"}
            /\ ActivityAt(f).kind = ACTIVITY_SPLIT
            /\ \A z \in OfRun({<<t, p>> : p \in 1..Len(log[t])}, f.rid) :
                 Ev(z).i <= f.cursor

\* a run started the activity after a WHILE loop whose nested body ran
\* MaxIter times, or the activity after a SPLIT with MaxSplit sub-contexts
C16_Witness ==
  \E y \in Events :
    /\ Is(y, "act") /\ Ev(y).i > 0
    /\ \/ Cardinality({r \in Upto(y) :
             Is(r, "run") /\ Ev(r).run.via[1] = Ev(y).rid}) = MaxIter
       \/ \E s \in Upto(y) : /\ Is(s, "split") /\ Ev(s).rid = Ev(y).rid
                             /\ Len(Ev(s).subs) = MaxSplit

\* the hook source of the run defines before$N and after$N for the
\* activity at (0-based) index i of builder b
HasHooks(b, i) == Hooked(ActsOf(b)[i + 1])

\* x is a call of the hook of the given kind for activity i of run rid
IsHookCall(x, kind, rid, i) ==
  /\ x[2] >= 1 /\ x[2] <= Len(log[x[1]])
  /\ Is(x, kind) /\ Ev(x).rid = rid /\ Ev(x).i = i

\* calls of the hook of the given kind, for the activity of x, among S
HookCalls(S, kind, x) ==
  {h \in S : Is(h, kind) /\ Ev(h).rid = Ev(x).rid /\ Ev(h).i = Ev(x).i}

\* x is a successful execution of a callable body whose activity has hooks:
\* a completed before$N call is the event just before it and an after$N
\* call the event just after it, and no other hook call lies in between
Bracketed(x) ==
  /\ IsHookCall(Prev(x), "before", Ev(x).rid, Ev(x).i)
  /\ Ev(Prev(x)).out = "ok"
  /\ IsHookCall(<<x[1], x[2] + 1>>, "after", Ev(x).rid, Ev(x).i)

\* the same for the successful run r .. z of a nested-pipeline body
BracketedRun(r, z) ==
  /\ IsHookCall(Prev(r), "before", Ev(r).run.via[1], Ev(r).run.via[2])
  /\ Ev(Prev(r)).out = "ok"
  /\ IsHookCall(<<z[1], z[2] + 1>>, "after",
                Ev(r).run.via[1], Ev(r).run.via[2])

\* C17 for callable bodies: each successful execution of the body of an
\* activity N whose hook source defines before$N and after$N is immediately
\* preceded by one completed call of before$N and immediately followed by
\* one call of after$N.
C17_CallableBodies ==
  \A x \in Events :
    (Is(x, "op") /\ Ev(x).out # "throw" /\ HasHooks(Ev(x).b, Ev(x).i)) =>
      Bracketed(x)

\* C17: the same for every activity, whatever its body: a callable or a
\* nested pipeline.
C17_AsStated ==
  /\ C17_CallableBodies
  /\ \A z \in Events :
       (/\ Is(z, "end") /\ Ev(z).out.ok /\ Ev(z).run.via # NoVia
        /\ HasHooks(Ev(z).run.via[3], Ev(z).run.via[2])) =>
         \A r \in Upto(z) :
           (Is(r, "run") /\ Ev(r).rid = Ev(z).rid) => BracketedRun(r, z)

\* C18: when the body of an activity N fails, after$N is not called for
\* that execution: no after$N call follows a body call that threw, and
\* every after$N call comes right after a body call of N that returned.
C18_NoAfterOnFailure ==
  \A x \in Events :
    /\ (Is(x, "op") /\ Ev(x).out = "throw") =>
         ~IsHookCall(<<x[1], x[2] + 1>>, "after", Ev(x).rid, Ev(x).i)
    /\ Is(x, "after") =>
         /\ IsHookCall(Prev(x), "op", Ev(x).rid, Ev(x).i)
         /\ Ev(Prev(x)).out # "throw"

\* the body of an activity with hooks threw after its before hook had
\* completed, and the run has ended with the failure
C18_Witness ==
  \E x \in Events :
    /\ Is(x, "op") /\ Ev(x).out = "throw" /\ HasHooks(Ev(x).b, Ev(x).i)
    /\ IsHookCall(Prev(x), "before", Ev(x).rid, Ev(x).i)
    /\ \E z \in After(x) :
         Is(z, "end") /\ Ev(z).rid = Ev(x).rid /\ ~Ev(z).out.ok

\* the pipe calls in progress: <<t, d>> for a pipe frame at depth d of task t
Pipes ==
  {x \in UNION {{<<t, d>> : d \in 1..Depth(t)} : t \in Threads} :
     Stack(x[1])[x[2]].type = "pipe"}

\* the workers of the pipe call x that are inside a pipeline run
InFlight(x) ==
  {u \in Threads :
     /\ threads[u].st = "busy" /\ threads[u].parent = x
     /\ \E k \in 1..Depth(u) : Stack(u)[k].type = "run"}

\* C19: during pipe(items, maxConcurrent) the number of pipeline runs in
\* flight never exceeds min(maxConcurrent, items.length).
C19_BoundedInFlight ==
  \A x \in Pipes :
    LET f == Stack(x[1])[x[2]] IN
    Cardinality(InFlight(x)) <= Min(f.maxConcurrent, Len(f.items))

\* pipe with more items than maxConcurrent: maxConcurrent runs are in
\* flight and an item is still waiting to be claimed
C19_Witness ==
  /\ scen.mode = "pipe" /\ scen.k < scen.n
  /\ <<MainThread, 1>> \in Pipes
  /\ Cardinality(InFlight(<<MainThread, 1>>)) = scen.k
  /\ Stack(MainThread)[1].itemIndex < scen.n

\* the items claimed so far in the pipe call of runner r
Claims(r) == {c \in Events : Is(c, "claim") /\ Ev(c).pipe = r}

\* C20: in every pipe() call the setup functions have completed before the
\* first activity of the first item starts: while setup is pending no item
\* has been claimed, and once an item has been claimed the setup hook of
\* the hook source (if there is one) has returned.
C20_SetupFirst ==
  /\ \A x \in Pipes :
       Stack(x[1])[x[2]].pc = "setup" => Claims(Stack(x[1])[x[2]].runner) = {}
  /\ \A c \in Events :
       (Is(c, "claim") /\ scen.hk) =>
         \E s \in Events : /\ Is(s, "setup") /\ Ev(s).runner = Ev(c).pipe
                           /\ Ev(s).out = "ok"

\* pipe over MaxItems items with a setup hook: the first activity of the
\* first item has started
C20_Witness ==
  /\ scen.mode = "pipe" /\ scen.n = MaxItems /\ scen.hk
  /\ \E c \in Claims(TopRunner) :
       /\ Ev(c).idx = 0
       /\ \E y \in After(c) : Is(y, "act") /\ Ev(y).rid = Ev(c).started
  /\ \E s \in Events : Is(s, "setup") /\ Ev(s).runner = TopRunner

\* the lifecycle calls of the given kind made for runner r
Lifecycle(kind, r) == {s \in Events : Is(s, kind) /\ Ev(s).runner = r}
\* the items of the pipe call of runner r whose record has been stored
Settles(r) == {s \in Events : Is(s, "settle") /\ Ev(s).pipe = r}
\* the pipe call of runner r is in progress
Piping(r) == \E x \in Pipes : Stack(x[1])[x[2]].runner = r

\* C21: in a pipe() call whose setup succeeded, cleanup does not begin
\* before every worker has finished its last item (every claimed item has
\* its record, no worker is left running), and the call does not end
\* without cleanup having run, whether items succeeded or failed.
C21_CleanupLast ==
  /\ \A c \in Events :
       Is(c, "cleanup") =>
         /\ \A k \in Claims(Ev(c).runner) :
              \E s \in Settles(Ev(c).runner) : Ev(s).idx = Ev(k).idx
         /\ Len(Ev(c).order) = Cardinality(Claims(Ev(c).runner))
  /\ \A x \in Pipes :
       Stack(x[1])[x[2]].pc = "teardown" =>
         \A u \in Threads : threads[u].parent = x => threads[u].st # "busy"
  /\ \A s \in Events :
       (Is(s, "setup") /\ Ev(s).out = "ok" /\ ~Piping(Ev(s).runner)) =>
         Lifecycle("cleanup", Ev(s).runner) # {}

\* a pipe call over MaxItems items, one of which failed and one of which
\* succeeded, has run cleanup after all of them
C21_Witness ==
  /\ scen.mode = "pipe" /\ scen.n = MaxItems
  /\ Lifecycle("cleanup", TopRunner) # {}
  /\ Cardinality(Settles(TopRunner)) = MaxItems
  /\ \E s \in Settles(TopRunner) : ~Ev(s).out.ok
  /\ \E s \in Settles(TopRunner) : Ev(s).out.ok

\* C22: when a setup function fails, the pipe() call fails and the
\* pipeline run of no item is started.
C22_SetupFailure ==
  \A s \in Events :
    (Is(s, "setup") /\ Ev(s).out = "throw") =>
      /\ Claims(Ev(s).runner) = {}
      /\ \A r \in Events : Is(r, "run") => Ev(r).runner # Ev(s).runner
      /\ ~Piping(Ev(s).runner)
      /\ IF Ev(s).runner = TopRunner
         THEN /\ threads[MainThread].st = "done"
              /\ ~threads[MainThread].out.ok
         ELSE \A y \in After(s) : ~Is(y, "rejoin")

\* pipe over MaxItems items has ended after its setup hook threw
C22_Witness ==
  /\ scen.mode = "pipe" /\ scen.n = MaxItems
  /\ threads[MainThread].st = "done"
  /\ \E s \in Lifecycle("setup", TopRunner) : Ev(s).out = "throw"

\* C23: when a cleanup function fails, the pipe() call fails with that
\* cleanup failure, also when the pipeline run of every item succeeded.
C23_CleanupFailure ==
  \A c \in Events :
    (Is(c, "cleanup") /\ Ev(c).out = "throw") =>
      /\ ~Piping(Ev(c).runner)
      /\ IF Ev(c).runner = TopRunner
         THEN /\ threads[MainThread].st = "done"
              /\ ~threads[MainThread].out.ok
              /\ threads[MainThread].out.v.msg = "teardown"
         ELSE \A y \in After(c) : ~Is(y, "rejoin")

\* pipe over MaxItems items, all of which succeeded, ended failed after its
\* cleanup hook threw
C23_Witness ==
  /\ scen.mode = "pipe" /\ scen.n = MaxItems
  /\ threads[MainThread].st = "done" /\ ~threads[MainThread].out.ok
  /\ \E c \in Lifecycle("cleanup", TopRunner) : Ev(c).out = "throw"
  /\ Cardinality(Settles(TopRunner)) = MaxItems
  /\ \A s \in Settles(TopRunner) : ~Failed(Ev(s).out)

\* all calls of the hook source's lifecycle method of the given kind
AllLifecycle(kind) == {s \in Events : Is(s, kind)}

\* C24: during one pipe() call on a pipeline whose hook source defines
\* setup and cleanup, each of the two is invoked exactly once, also when the
\* pipeline has a SPLIT whose nested-pipeline body is fanned out through
\* pipe(): never twice, and once each when the call returns.
C24_AsStated ==
  (scen.mode = "pipe" /\ scen.hk) =>
    /\ Cardinality(AllLifecycle("setup")) <= 1
    /\ Cardinality(AllLifecycle("cleanup")) <= 1
    /\ PipeReturned =>
         /\ Cardinality(AllLifecycle("setup")) = 1
         /\ Cardinality(AllLifecycle("cleanup")) = 1

\* what holds instead: the runner of the pipe() call invokes each exactly
\* once, and so does the runner created for every SPLIT fan-out
C24_OncePerRunner ==
  (scen.mode = "pipe" /\ scen.hk) =>
    /\ \A s \in AllLifecycle("setup") :
         Lifecycle("setup", Ev(s).runner) = {s}
    /\ \A c \in AllLifecycle("cleanup") :
         Lifecycle("cleanup", Ev(c).runner) = {c}
    /\ PipeReturned =>
         /\ Cardinality(Lifecycle("setup", TopRunner)) = 1
         /\ Cardinality(Lifecycle("cleanup", TopRunner)) = 1

\* x is where a run met BREAK or CONTINUE outside of a loop context, in a
\* run that pipe() started for an item
StructuralError(x) ==
  /\ Is(x, "act") /\ TopLevel(x)
  /\ ActivityOf(x).kind \in {ACTIVITY_BREAK, ACTIVITY_CONTINUE}
  /\ \E c \in Claims(TopRunner) : Ev(c).started = Ev(x).rid

\* C25: a structural error met while pipe() processes an item (here BREAK
\* or CONTINUE outside a loop) makes the pipe() call itself throw, and is
\* not recorded as the rejected record of that item.
C25_AsStated ==
  (PipeSettled /\ \E x \in Events : StructuralError(x)) =>
    ~threads[MainThread].out.ok

\* what the code does: the error becomes the item's rejected record, and
\* pipe() returns unless cleanup fails
C25_Recorded ==
  (PipeSettled /\ \E x \in Events : StructuralError(x)) =>
    /\ \A x \in Events :
         StructuralError(x) =>
           \E s \in Settles(TopRunner) :
             /\ ~Ev(s).out.ok
             /\ Ev(s).out.v.msg = "ActionRunner running activity"
    /\ threads[MainThread].out.ok =>
         \A i \in 1..Len(Returned) : Returned[i].status = "rejected"
    /\ ~threads[MainThread].out.ok =>
         \E c \in Lifecycle("cleanup", TopRunner) : Ev(c).out = "throw"

Kinds ==
  {ACTIVITY_ONCE, ACTIVITY_WHILE, ACTIVITY_UNTIL, ACTIVITY_SPLIT, ACTIVITY_IF,
   ACTIVITY_BREAK, ACTIVITY_CONTINUE}

\* C26: an activity whose kind is not exactly one of the defined kinds makes
\* the run fail when the run reaches it: its body is never executed, and
\* the run neither goes on to another activity nor ends well.
C26_AsStated ==
  \A x \in Events :
    (Is(x, "act") /\ ActivityOf(x).kind \notin Kinds) =>
      \A y \in After(x) :
        Ev(y).rid = Ev(x).rid =>
          /\ Ev(y).e \notin {"op", "before", "after", "act"}
          /\ Is(y, "end") => ~Ev(y).out.ok

\* what the code does: the activity runs as one of kind ONCE, its predicate
\* never being called
C26_RunsAsOnce ==
  \A x \in Events :
    (Is(x, "act") /\ ActivityOf(x).kind \notin Kinds) =>
      /\ \A y \in After(x) : Ev(y).rid = Ev(x).rid => ~Is(y, "pred")
      /\ \A y \in After(x) :
           (Is(y, "end") /\ Ev(y).rid = Ev(x).rid) =>
             Cardinality(HookCalls(Between(x, y), "op", x)) = 1

(***************************************************************************)
(* Termination of run.  The explored predicates yield their stopping value *)
(* after at most MaxIter iterations (PredOutcomes) and every callable       *)
(* returns or throws.                                                       *)
(***************************************************************************)
Stops(x) ==
  \/ IsAt(x, "pred", ACTIVITY_WHILE) /\ Ev(x).val = "F"
  \/ IsAt(x, "pred", ACTIVITY_UNTIL) /\ Ev(x).val = "T"

\* the body of a loop is not entered again after the stopping evaluation
NoReentry ==
  \A x \in Events :
    Stops(x) =>
      \A y \in After(x) : Is(y, "body") => ~SameActivity(x, y)

EndsOf(x) == {y \in Events : Is(y, "end") /\ Ev(y).rid = Ev(x).rid}

\* every task has settled and every run that started has ended exactly
\* once, with a value or with one error
AllRunsEnded ==
  /\ \A t \in Threads : threads[t].st # "busy"
  /\ \A x \in Events :
       Is(x, "run") =>
         /\ Cardinality(EndsOf(x)) = 1
         /\ \A y \in EndsOf(x) :
              /\ y \in After(x)
              /\ Ev(y).out.ok \/ IsError(Ev(y).out.v)

\* C27: when every callable returns and every loop predicate yields its
\* stopping value after finitely many iterations, every run that starts
\* ends, exactly once, with a value or with one error; a loop body is never
\* entered again after the stopping evaluation of its predicate, and no run
\* stays waiting for a break signal.
C27_Terminates == []NoReentry /\ <>[]AllRunsEnded

\* a run whose WHILE loop made MaxIter iterations, saw the stopping value
\* and ended, all tasks settled
C27_Witness ==
  /\ AllRunsEnded
  /\ \E x \in Events :
       /\ Stops(x) /\ Ev(x).iter = MaxIter
       /\ \E y \in After(x) : Is(y, "end") /\ Ev(y).rid = Ev(x).rid
  /\ \E y \in Events : Is(y, "end") /\ ~Ev(y).out.ok

(***************************************************************************)
(* Registration of activities.                                             *)
(***************************************************************************)
Distinct(acts) ==
  \A i, j \in 1..Len(acts) : acts[i].name = acts[j].name => i = j

\* the call just made was do(name, ...) on a builder that held name
DupeCall ==
  /\ bld'.n = bld.n + 1
  /\ bld'.call.op = "do"
  /\ bld'.call.name \in NamesOf(bld.acts[bld'.call.b])

\* C28: the names registered on a builder are always distinct, and a do()
\* call with a name the builder already holds fails and leaves the
\* activities of the builder, their definitions and their order as they were.
C28_DistinctNames ==
  /\ [](\A b \in BuilderIds : Distinct(bld.acts[b]))
  /\ [][DupeCall => ~bld'.call.ok /\ bld'.acts = bld.acts]_vars

\* a builder holding two activities has just refused a do() with the name
\* of the first, given arguments that are valid in themselves
C28_Witness ==
  /\ bld.call.op = "do" /\ ~bld.call.ok
  /\ LET acts == bld.acts[bld.call.b] IN
     /\ Len(acts) = 2
     /\ acts[1].name = bld.call.name
     /\ acts[1].len = 3
     /\ ArgsAccepted(bld.call.args) /\ bld.call.args.len = 1

(***************************************************************************)
(* build() and action.setup.                                               *)
(***************************************************************************)
\* the call just made was a build of a builder whose action was tagged
Rebuild ==
  /\ bld'.n = bld.n + 1
  /\ bld'.call.op = "build"
  /\ LET b == bld'.call.b
         action == bld'.action[b]
     IN action # NoAction /\ bld.tag[action] # NoTag

\* C29: the setup of an action object is invoked at most once however many
\* builds are made, by the user, by a runner or by the runner that #execute
\* creates for a nested builder at each iteration or SPLIT item; a build
\* that finds the action tagged calls no setup and registers nothing.
C29_SetupOnce ==
  /\ [](\A a \in ActionIds : bld.setups[a] <= 1)
  /\ [][Rebuild => /\ bld'.setups = bld.setups
                   /\ bld'.acts = bld.acts
                   /\ bld'.tag = bld.tag
                   /\ bld'.call.ok]_vars

\* builder 1 was built, then the runner of the nested builder, which took
\* the action through withAction, was built twice: setup ran once, on
\* builder 1 alone
C29_Witness ==
  /\ bld.builds[1] = 1 /\ bld.builds[2] = 2
  /\ bld.action[2] = TheAction
  /\ bld.setups[TheAction] = 1
  /\ NamesOf(bld.acts[1]) = {"s"} /\ bld.acts[2] = << >>

(***************************************************************************)
(* The hook timeout.                                                       *)
(***************************************************************************)
HookCalled(k) == hooking.callOut[k] # "none"

\* the hook of the settled call callHook(k) had not completed when the
\* timeout had elapsed since the start of the call
Overran(k) ==
  /\ HookCalled(k)
  /\ \/ hooking.ended[k] = -1
     \/ hooking.ended[k] > hooking.started[k] + TimeoutTicks

InFlightHook(k) == \E p \in hooking.pending : p.kind = k

LeftFromBody(y, z) ==
  /\ Is(y, "body") /\ IsLoop(ActivityOf(y).kind)
  /\ NextOf(y, z, Ev(y).rid)
  /\ Is(z, "act") /\ Ev(z).i = Ev(y).i + 1

\* x is a BREAK of the body run that y started
OwnBreak(x, y) ==
  /\ Is(x, "break")
  /\ LoopRun(x) = Ev(y).rid
  /\ LoopIndex(x) = Ev(y).i

\* C31 as stated: the loop of an item is left from its body only through a
\* BREAK of that item's own body run; a BREAK in the processing of another
\* item of the same pipe() call does not end it.
C31_AsStated ==
  \A y \in Events :
    \A z \in After(y) :
      LeftFromBody(y, z) => \E x \in Between(y, z) : OwnBreak(x, y)

\* r starts the run whose loop the BREAK x ends, and that run is itself the
\* body of a loop L1
OuterLoopOf(x, r) ==
  /\ Is(x, "break") /\ InLoopBody(x)
  /\ Is(r, "run") /\ Ev(r).rid = LoopRun(x)
  /\ InLoopBody(r)

\* C32: a BREAK in the body of loop L2, itself in the body of loop L1, does
\* not end L1: the run of L1's body goes on after L2, and the next thing
\* L1's run does is to test L1's predicate again.
C32_OuterLoopContinues ==
  \A x \in Events :
    \A r \in Upto(x) :
      OuterLoopOf(x, r) =>
        /\ \A y \in After(x) :
             NextOf(x, y, Ev(r).rid) =>
               Is(y, "act") /\ Ev(y).i = LoopIndex(x) + 1
        /\ \A z \in After(x) :
             NextOf(x, z, LoopRun(r)) =>
               Is(z, "pred") /\ Ev(z).i = LoopIndex(r)

\* after a BREAK in L2, L1 tested its predicate, found it true and entered
\* its body again
C32_Witness ==
  \E x \in Events :
    \E r \in Upto(x) :
      /\ OuterLoopOf(x, r)
      /\ \E z \in After(x) :
           /\ Ev(z).rid = LoopRun(r)
           /\ Is(z, "body") /\ Ev(z).i = LoopIndex(r)

(***************************************************************************)
(* Loop bodies that are builders returned by a callable.                   *)
(***************************************************************************)
\* the run of x was started for the loop activity whose op is a callable
ReturnedBody(x) ==
  ActsOf(Ev(x).run.via[3])[LoopIndex(x) + 1].opKind = "Function"

\* C33 as stated: in the body of a WHILE/UNTIL loop, whether the body is a
\* builder given directly or one returned by the callable body, a BREAK
\* whose predicate was true ends the loop (no further test or body of that
\* loop), and a CONTINUE whose predicate was true skips the rest of the
\* body run and takes the loop to its next test.
C33_AsStated ==
  \A x \in Events :
    /\ (Is(x, "break") /\ InLoopBody(x)) =>
         \A y \in After(x) :
           (Ev(y).rid = LoopRun(x) /\ Ev(y).e \in {"body", "pred"})
             => Ev(y).i # LoopIndex(x)
    /\ (Is(x, "continue") /\ InLoopBody(x)) =>
         \A y \in After(x) :
           /\ Ev(y).rid = Ev(x).rid => Is(y, "end")
           /\ NextOf(x, y, LoopRun(x)) =>
                Is(y, "pred") /\ Ev(y).i = LoopIndex(x)

\* what holds: the above for a body given directly, and its CONTINUE half
\* for a returned body, in which a BREAK ends the body run alone
C33_DirectBodies ==
  \A x \in Events :
    /\ (Is(x, "break") /\ InLoopBody(x) /\ ~ReturnedBody(x)) =>
         \A y \in After(x) :
           (Ev(y).rid = LoopRun(x) /\ Ev(y).e \in {"body", "pred"})
             => Ev(y).i # LoopIndex(x)
    /\ (Is(x, "break") /\ InLoopBody(x) /\ ReturnedBody(x)) =>
         \A y \in After(x) :
           /\ Ev(y).rid = Ev(x).rid => Is(y, "end")
           /\ NextOf(x, y, LoopRun(x)) =>
                Is(y, "pred") /\ Ev(y).i = LoopIndex(x)
    /\ (Is(x, "continue") /\ InLoopBody(x)) =>
         \A y \in After(x) :
           /\ Ev(y).rid = Ev(x).rid => Is(y, "end")
           /\ NextOf(x, y, LoopRun(x)) =>
                Is(y, "pred") /\ Ev(y).i = LoopIndex(x)

(***************************************************************************)
(* The claims of the workers of pipe().                                    *)
(***************************************************************************)
ClaimsOf(idx) ==
  {x \in Events : Is(x, "claim") /\ Ev(x).pipe = TopRunner /\ Ev(x).idx = idx}

\* the pipeline runs started for the claim x, and those that have ended
StartedFor(x) == {y \in After(x) : Is(y, "run") /\ Ev(y).rid = Ev(x).started}
EndedFor(x) == {y \in After(x) : Is(y, "end") /\ Ev(y).rid = Ev(x).started}

Indices == 0..(scen.n - 1)

\* C34 as stated: once pipe() has returned, every item was claimed by
\* exactly one worker and run exactly once.
C34_AsStated ==
  PipeReturned =>
    \A idx \in Indices :
      /\ Cardinality(ClaimsOf(idx)) = 1
      /\ \A x \in ClaimsOf(idx) :
           Cardinality(StartedFor(x)) = 1 /\ Cardinality(EndedFor(x)) = 1

\* C34: under every interleaving of the workers no item is claimed twice
\* and no claim runs the pipeline twice, the run being on the item of the
\* claimed index; and when pipe() returns with no abort reason recorded on
\* the runner, every item was claimed exactly once and its run has ended.
C34_ExactlyOnce ==
  scen.mode = "pipe" =>
    /\ \A idx \in Indices :
         /\ Cardinality(ClaimsOf(idx)) <= 1
         /\ \A x \in ClaimsOf(idx) :
              /\ Ev(x).item = Item(idx + 1)
              /\ Cardinality(StartedFor(x)) <= 1
              /\ Cardinality(EndedFor(x)) <= 1
              /\ \A y \in StartedFor(x) : Ev(y).seed = Ev(x).item
    /\ (PipeReturned /\ TopRunner \notin reason) =>
         \A idx \in Indices :
           /\ Cardinality(ClaimsOf(idx)) = 1
           /\ \A x \in ClaimsOf(idx) :
                Cardinality(StartedFor(x)) = 1 /\ Cardinality(EndedFor(x)) = 1

\* pipe() returned after MaxConcurrent workers had shared MaxItems items,
\* two of them claimed by different workers
C34_Witness ==
  /\ PipeReturned /\ TopRunner \notin reason
  /\ scen.n = MaxItems /\ scen.k = MaxConcurrent
  /\ \E x \in ClaimsOf(0), y \in ClaimsOf(1) : x[1] # y[1]

(***************************************************************************)
(* The loop.break listeners left on the runners.                           *)
(***************************************************************************)
\* the run frames that are inside the body of a loop iteration
InBody ==
  UNION {{<<f.rid, f.cursor, f.iter>> :
            f \in {g \in Range(threads[t].stack) :
                     /\ g.type = "run" /\ g.pc \in {"body", "bodyret"}
                     /\ IsLoop(ActivityAt(g).kind)}} :
         t \in Threads}

\* the #execute frames that are waiting for the run of a nested builder
InNested ==
  UNION {{f.fwd : f \in {g \in Range(threads[t].stack) :
                           g.type = "exec" /\ g.pc = "nested"}} :
         t \in Threads}

\* C35 as stated: the loop.break receivers subscribed are exactly those of
\* the loop bodies being executed and the forwarders exactly those of the
\* nested runs being executed, so that none is left once the runs have
\* settled.
C35_AsStated ==
  /\ {l.owner : l \in {x \in listeners : x.type = "recv"}} = InBody
  /\ {l.on : l \in {x \in listeners : x.type = "fwd"}} = InNested

\* what holds: the forwarders are exactly those of the nested runs being
\* executed, and every loop body being executed has its receiver
C35_Forwarders ==
  /\ InBody \subseteq {l.owner : l \in {x \in listeners : x.type = "recv"}}
  /\ {l.on : l \in {x \in listeners : x.type = "fwd"}} = InNested

(***************************************************************************)
(* The workers of pipe() on a runner that has not been built.              *)
(***************************************************************************)
FirstInit ==
  /\ Idle
  /\ bld = NoBuilding
  /\ hooking = NoHooking
  /\ first \in {Spawned(FirstRun(s, n, k), Min(k, n)) :
                  s \in Setups, n \in 1..MaxItems, k \in 1..MaxConcurrent}

FirstWorkers == DOMAIN first.w

FirstRest == <<threads, log, ctr, listeners, reason, wrappers, scen, bld,
               hooking>>

\* the setup of the action resumes after an await
SetupResume(w) ==
  /\ first.w[w].pc = "setup"
  /\ first' = SetupRun(first, w, first.w[w].pos)
  /\ UNCHANGED FirstRest

\* build() after await this.#getHooks(): the wrapper copies the activities
\* the builder holds
HooksSettle(w) ==
  /\ first.w[w].pc = "getHooks"
  /\ first' = [first EXCEPT !.w[w].built = first.activities,
                             !.w[w].pc = "built"]
  /\ UNCHANGED FirstRest

\* run() after await this.#actionBuilder.build(this)
RunResume(w) ==
  /\ first.w[w].pc = "built"
  /\ first' = RunWith([first EXCEPT !.actionWrapper = first.w[w].built], w)
  /\ UNCHANGED FirstRest

\* the run of the item settles and the worker records it
ItemSettle(w) ==
  /\ first.w[w].pc = "exec"
  /\ first' = [first EXCEPT !.w[w].pc = "claim"]
  /\ UNCHANGED FirstRest

\* the worker takes the next index
FirstClaim(w) ==
  /\ first.w[w].pc = "claim"
  /\ first' = Claimed(first, w)
  /\ UNCHANGED FirstRest

FirstNext ==
  \/ \E w \in FirstWorkers : SetupResume(w)
  \/ \E w \in FirstWorkers : HooksSettle(w)
  \/ \E w \in FirstWorkers : RunResume(w)
  \/ \E w \in FirstWorkers : ItemSettle(w)
  \/ \E w \in FirstWorkers : FirstClaim(w)

FirstSpec == FirstInit /\ [][FirstNext]_vars

\* the activities the setup registers in all
AllActivities == Registered(first.setup, 1, Len(first.setup) + 1)

\* C36 as stated: every item run by a worker of pipe() on a runner that was
\* not built is run through all the activities the setup registers, also
\* when the setup is asynchronous.
C36_AsStated ==
  \A i \in DOMAIN first.ran :
    first.ran[i] # NotRun => first.ran[i] = AllActivities

\* what holds: the items are run through all the activities when the setup
\* registers them before its first await, or when there is one worker
C36_SynchronousSetup ==
  (\/ Registered(first.setup, 1, NextAwait(first.setup, 1)) = AllActivities
   \/ Cardinality(FirstWorkers) <= 1)
  => C36_AsStated

(***************************************************************************)
(* What a run does after one of its activities failed.                     *)
(***************************************************************************)
\* x records that a step of an activity threw
StepThrew(x) ==
  \/ Ev(x).e \in {"before", "op", "splitter", "rejoin"} /\ Ev(x).out = "throw"
  \/ Is(x, "pred") /\ Ev(x).val = "throw"

\* x records that a nested pipeline that is the body of an activity failed
BodyRunFailed(x) ==
  /\ Is(x, "end") /\ ~Ev(x).out.ok
  /\ Ev(x).run.via # NoVia

\* x is the execution of the body of a SPLIT on one sub-context
OnSubContext(x) ==
  IF Is(x, "end")
  THEN ViaKind(x) = ACTIVITY_SPLIT
  ELSE /\ Ev(x).e \in {"before", "op", "after"}
       /\ ActsOf(Ev(x).b)[Ev(x).i + 1].kind = ACTIVITY_SPLIT

\* after x the run rid calls at most the done callback, as a top-level run,
\* and ends failed
OnlyDoneAfter(x, rid) ==
  \A y \in After(x) :
    Ev(y).rid = rid =>
      \/ Is(y, "done") /\ TopLevel(y)
      \/ Is(y, "end") /\ ~Ev(y).out.ok

\* the run rid reaches no activity after its activity i
NoLaterActivity(rid, i) ==
  \A y \in Events : (Is(y, "act") /\ Ev(y).rid = rid) => Ev(y).i <= i

\* what C37 states of a run once x has recorded the failure of a step
NothingAfter(x) ==
  /\ StepThrew(x) =>
       OnlyDoneAfter(x, Ev(x).rid) /\ NoLaterActivity(Ev(x).rid, Ev(x).i)
  /\ BodyRunFailed(x) =>
       /\ OnlyDoneAfter(x, Ev(x).run.via[1])
       /\ NoLaterActivity(Ev(x).run.via[1], Ev(x).run.via[2])

\* C37 as stated: once a step of an activity has failed (before hook,
\* predicate, splitter, rejoiner or body) the run executes no later
\* activity: it calls at most the done callback, as a top-level run, and
\* fails.
C37_AsStated == \A x \in Events : NothingAfter(x)

\* C37: the same for every failure but that of the body of a SPLIT on one
\* of its sub-contexts, which is handed to the rejoiner.
C37_NothingAfterFailure ==
  \A x \in Events :
    ((StepThrew(x) \/ BodyRunFailed(x)) /\ ~OnSubContext(x)) =>
      NothingAfter(x)

\* the body of an activity that is not the last one threw, and the run
\* called done and failed
C37_Witness ==
  \E x \in Events :
    /\ Is(x, "op") /\ Ev(x).out = "throw" /\ ~OnSubContext(x)
    /\ Ev(x).i + 1 < Len(ActsOf(Ev(x).b))
    /\ \E d \in After(x) : Is(d, "done") /\ Ev(d).rid = Ev(x).rid
    /\ \E y \in After(x) : Is(y, "end") /\ Ev(y).rid = Ev(x).rid

AbortedPipeSettled ==
  (PipeSettled /\ TopRunner \in reason /\ ~SetupThrew) =>
    /\ scen.hk => \E x \in Events : Is(x, "cleanup") /\ Ev(x).runner = TopRunner
    /\ PipeReturned =>
         /\ Len(Returned) = scen.n
         /\ \A i \in 1..scen.n :
              IF ClaimsOf(i - 1) = {}
              THEN Returned[i] = Unset
              ELSE \E o \in ItemOutcomes(i - 1) :
                     IsRecordOf(Returned[i], Item(i), o)

\* a step taken with a reason recorded adds no claim, and no step removes
\* the reason
NoClaimOnceAborted ==
  /\ TopRunner \in reason =>
       \A idx \in Indices : ClaimsOf(idx)' = ClaimsOf(idx)
  /\ reason \subseteq reason'

\* C39: once an abort reason is recorded on a runner no worker claims
\* another item, at any later time; pipe() still runs its cleanup and
\* returns an array of items.length slots, in which each item claimed
\* before has its record and each unclaimed index is unset.
C39_AbortStopsClaims == []AbortedPipeSettled /\ [][NoClaimOnceAborted]_vars

\* pipe() returned two slots after an abort recorded while the first item
\* was being processed: its record, and nothing for the second item
C39_Witness ==
  /\ PipeReturned /\ TopRunner \in reason
  /\ scen.n >= 2
  /\ ClaimsOf(0) # {} /\ Returned[1].status \in {"fulfilled", "rejected"}
  /\ ClaimsOf(1) = {} /\ Returned[2] = Unset

(***************************************************************************)
(* A nested builder executed by a pipeline, each with or without hooks of  *)
(* its own.                                                                *)
(***************************************************************************)
SourcesInit ==
  /\ Idle
  /\ bld \in {WithSources(Constructed(inner), outer, nested) :
                inner \in {NoAction, InnerAction},
                outer \in HookSources \cup {NoHooks},
                nested \in HookSources \cup {NoHooks}}
  /\ hooking = NoHooking
  /\ first = NoFirst

SourcesNext ==
  \/ \E b \in BuilderIds : DoCall(b, "a", [len |-> 1, kind |-> ACTIVITY_ONCE])
  \/ \E b \in BuilderIds : BuildCall(b)
  \/ ExecuteNested

SourcesSpec == SourcesInit /\ [][SourcesNext]_vars

\* #execute has just failed on the nested builder
ExecuteFailed == bld.call.op = "execute" /\ ~bld.call.ok

\* C40 as stated: a nested builder that has a hook source of its own is
\* executed with success inside a pipeline that has another hook source,
\* and its wrapper dispatches to the nested builder's own source.
C40_AsStated ==
  (bld.hooks[2] # NoHooks) =>
    /\ ~ExecuteFailed
    /\ bld.builds[2] > 0 => bld.wrapperHooks[2] = bld.hooks[2]

\* what holds: #execute fails in withHooks exactly on a nested builder
\* whose source is not that of the pipeline; a nested builder that was built
\* dispatches to the source it holds, which is the pipeline's when it had
\* none
C40_SameSourceOnly ==
  /\ ExecuteFailed =>
       /\ bld.hooks[2] # NoHooks /\ bld.wrapperHooks[1] # NoHooks
       /\ bld.hooks[2] # bld.wrapperHooks[1]
  /\ bld.builds[2] > 0 => bld.wrapperHooks[2] = bld.hooks[2]
====
